---- MODULE Spec2Model ----
(***************************************************************************)
(* The sync orchestrator of discourse-tui-client: the Bubble Tea model of  *)
(* internal/tui/tui.go (Model.Update, newTopicModel.Update) together with   *)
(* the client operations it dispatches (RefreshTopics, GetMoreTopics,       *)
(* LoadAllTopics, GetTopicPostsPage, GetTopicPosts, CreateTopic).           *)
(*                                                                         *)
(* A tea.Cmd runs in its own goroutine and delivers one message back into   *)
(* the event loop; msgs is the bag of those messages that are still on      *)
(* their way (a pending tea.Tick included).  The outcome of the network     *)
(* call behind a message is chosen when the command is dispatched; the      *)
(* payload is computed from the forum's documents when the message is       *)
(* handled.  Update handles one message or one key at a time.               *)
(*                                                                         *)
(* Keys are modelled as handled outside search mode; the list widget's      *)
(* selection is any loaded topic.  Widths and heights, fullscreen, search   *)
(* and quit do not touch the state modelled here and are left out; a        *)
(* tea.WindowSizeMsg stands for the messages no handler has a case for.     *)
(***************************************************************************)
EXTENDS Bags, FiniteSets, Integers, Sequences, TLC

VARIABLES
    State,              \* Model.State
    Topics,             \* Model.Topics, as the sequence of topic IDs
    MoreTopicsURL,      \* Model.MoreTopicsURL: 0 is "", p is the URL of page p
    isLoadingPosts,
    isRefreshingTopics,
    isLoadingMore,
    isLoadingAll,
    StatusMessage,      \* Model.StatusMessage
    Viewport,           \* content of Model.Viewport
    titleInput,         \* newTopicModel fields
    contentInput,
    categoryInput,
    focusIndex,
    submitting,
    formErr,
    formMessage,
    msgs,               \* messages on their way to Update (bag)
    tailCursor,         \* more_topics_url the forum puts on its last page
    last,               \* type of the message, or the key, Update handled last (history)
    opened,             \* selectedTopicID of the Enter that dispatched last, 0 before (history)
    call,               \* the client operation called last: arguments and what it returned
    jar,                \* Client.client.Jar: the cookies held for the base URL
    disk,               \* the files of the client: cookie file and per-instance cache
    client,             \* the Client: baseURL, cookiesPath, pageCooldown
    main                \* a run of main: its flags and where it is

formVars == <<titleInput, contentInput, categoryInput, focusIndex,
              submitting, formErr, formMessage>>
flagVars == <<isLoadingPosts, isRefreshingTopics, isLoadingMore, isLoadingAll>>
uiVars == <<State, Topics, MoreTopicsURL, flagVars, StatusMessage, Viewport,
            formVars, msgs, last, opened>>
clientVars == <<call, jar, disk, client, main>>
clientVarsButMain == <<call, jar, disk, client>>
vars == <<uiVars, tailCursor, clientVars>>

----------------------------------------------------------------------------
(* Bounds *)

NumPages == 3        \* topic-list pages the forum serves
MaxMsgs == 4         \* messages in flight at once
MaxTopics == 6       \* load-more is not requested beyond this many loaded topics
MaxPagesArg == 4     \* largest maxPages a direct call of LoadAllTopics is given
MaxCookies == 2      \* cookies in the jar of a client before an operation is called
MaxSlashes == 2      \* slashes at the end of a base URL given to NewClient

\* how many page requests of one LoadAllTopics succeed before one fails
OkPagesChoices == 0..(NumPages + 1)

(* Program constants *)

UIMaxPages == 20         \* tui.go: m.Client.LoadAllTopics(20)
DefaultMaxPages == 10    \* LoadAllTopics: maxPages <= 0
SaltLength == 16         \* crypto.go: SaltLength
NonceSize == 12          \* crypto.go: gcm.NonceSize() of cipher.NewGCM
DefaultCooldown == 500   \* NewClient: pageCooldown, in milliseconds

----------------------------------------------------------------------------
(* The forum: topic-list pages, cursors, topic documents *)

\* topics[] of page p (page 1 is /latest.json); a page past the forum's last
\* one has no topics
PageTopics(p) == IF p = 1 THEN <<1, 2>> ELSE IF p > NumPages THEN <<>> ELSE <<p + 1>>

\* topic_list.more_topics_url of page p
PageCursor(p, tail) == IF p < NumPages THEN p + 1 ELSE tail

\* /t/{id}.json has a post_stream.stream member (every fourth topic: none)
StreamExists(t) == t % 4 # 0

\* the IDs collected from post_stream.stream of /t/{id}.json
PostStreamIDs(t) == IF t % 2 = 1 THEN <<10 * t + 1, 10 * t + 2>> ELSE <<>>

\* post_stream.posts of /t/{id}.json
PostStreamPosts(t) == <<10 * t + 1>>

\* posts of /t/{id}/posts.json?post_ids[]=...
BatchPosts(ids) == ids

----------------------------------------------------------------------------
(* Client operations; a result is [err, ...], err = "" meaning success *)

NoErr == ""

\* call before any operation was called
NoCall == [op |-> ""]

\* the files: Client.cookiesPath and instances/<instance>/categories.json
CookieFile == "cookies.txt"
CatFile == "categories.json"
\* instances/<instance>/latest.json and the file a -cookies flag names
LatestFile == "latest.json"
CustomCookieFile == "my-cookies.txt"
Files == {CookieFile, CatFile, LatestFile, CustomCookieFile}

\* content of a path where os.ReadFile fails with ErrNotExist
NoFile == [kind |-> "ENOENT"]

\* content of a path that is there and that os.ReadFile cannot read
Unreadable == [kind |-> "EACCES"]

\* main before it has started
NoMain == [pc |-> ""]

\* strings.HasPrefix, strings.TrimPrefix, strings.TrimSuffix
HasPrefix(str, prefix) ==
    Len(str) >= Len(prefix) /\ SubSeq(str, 1, Len(prefix)) = prefix
HasSuffix(str, suffix) ==
    Len(str) >= Len(suffix)
    /\ SubSeq(str, Len(str) - Len(suffix) + 1, Len(str)) = suffix
TrimPrefix(str, prefix) ==
    IF HasPrefix(str, prefix) THEN SubSeq(str, Len(prefix) + 1, Len(str)) ELSE str
TrimSuffix(str, suffix) ==
    IF HasSuffix(str, suffix) THEN SubSeq(str, 1, Len(str) - Len(suffix)) ELSE str

Http == <<"h", "t", "t", "p", ":", "/", "/">>
Https == <<"h", "t", "t", "p", "s", ":", "/", "/">>

\* "https://placeholder.com", the URL of main's temporary client
PlaceholderURL == Https \o <<"p">>

\* what NewClient returns with an error
NilClient == [nil |-> TRUE]

\* NewClient: the jar it creates is the empty one
NewClient(baseURL, cookiesPath) ==
    IF baseURL = <<>>
    THEN [err |-> "baseURL is required", client |-> NilClient]
    ELSE LET url == IF ~HasPrefix(baseURL, Http) /\ ~HasPrefix(baseURL, Https)
                    THEN Https \o baseURL ELSE baseURL
         IN  [err |-> NoErr,
              client |-> [baseURL |-> TrimSuffix(url, <<"/">>),
                          cookiesPath |-> cookiesPath,
                          pageCooldown |-> DefaultCooldown]]

\* SetPageCooldown
SetPageCooldown(c, d) == [c EXCEPT !.pageCooldown = d]

RefreshTopics(ok, tail) ==
    IF ok THEN [err |-> NoErr, topics |-> PageTopics(1), cursor |-> PageCursor(1, tail)]
    ELSE [err |-> "failed to fetch latest topics", topics |-> <<>>, cursor |-> 0]

GetLatestTopics(ok, tail) ==
    IF ok THEN [err |-> NoErr, topics |-> PageTopics(1), cursor |-> PageCursor(1, tail)]
    ELSE [err |-> "failed to fetch latest topics", topics |-> <<>>, cursor |-> 0]

GetMoreTopics(moreURL, ok, tail) ==
    IF moreURL = 0
    THEN [err |-> "no more topics URL provided", topics |-> <<>>, cursor |-> 0]
    ELSE IF ok
    THEN [err |-> NoErr, topics |-> PageTopics(moreURL), cursor |-> PageCursor(moreURL, tail)]
    ELSE [err |-> "failed to fetch more topics", topics |-> <<>>, cursor |-> 0]

\* GET {baseURL}/latest.json and GET of a more_topics_url
LatestRequest == [url |-> "/latest.json"]
MoreRequest(moreURL) == [url |-> "more_topics_url", page |-> moreURL]

\* time.Sleep(c.pageCooldown)
Sleep == [sleep |-> "c.pageCooldown"]

\* a request issued without the wait before it
NoThrottleThen(request) == <<request>>

\* time.Sleep(c.pageCooldown), then the request
ThrottleThen(request) == <<Sleep, request>>

\* a failed page fetch that gives up what was accumulated
OnPageErrorDiscard(page, allTopics, currentMoreURL) ==
    [err |-> "failed to fetch more topics", topics |-> <<>>, cursor |-> 0,
     fetched |-> page + 1, events |-> ThrottleThen(MoreRequest(currentMoreURL))]

\* LoadAllTopics, a page fetch fails: log, break, return what was accumulated
OnPageError(page, allTopics, currentMoreURL) ==
    [err |-> NoErr, topics |-> allTopics, cursor |-> currentMoreURL,
     fetched |-> page + 1, events |-> ThrottleThen(MoreRequest(currentMoreURL))]

\* the for loop of LoadAllTopics; the first okPages page requests succeed, the
\* next one fails; fetched counts the page requests issued, events are the
\* waits and the page requests in the order the loop makes them
RECURSIVE LoadAllLoop(_, _, _, _, _, _)
LoadAllLoop(page, allTopics, currentMoreURL, maxPages, okPages, tail) ==
    IF page < maxPages /\ currentMoreURL # 0
    THEN LET moreResp == GetMoreTopics(currentMoreURL, page < okPages, tail)
         IN  IF moreResp.err # NoErr
             THEN OnPageError(page, allTopics, currentMoreURL)
             ELSE IF Len(moreResp.topics) = 0
             THEN [err |-> NoErr, topics |-> allTopics \o moreResp.topics,
                   cursor |-> moreResp.cursor, fetched |-> page + 1,
                   events |-> ThrottleThen(MoreRequest(currentMoreURL))]
             ELSE [LoadAllLoop(page + 1, allTopics \o moreResp.topics,
                               moreResp.cursor, maxPages, okPages, tail)
                   EXCEPT !.events = ThrottleThen(MoreRequest(currentMoreURL)) \o @]
    ELSE [err |-> NoErr, topics |-> allTopics, cursor |-> currentMoreURL,
          fetched |-> page, events |-> <<>>]

\* LoadAllTopics whose loop runs while page <= maxPages
LoadAllTopicsOneMore(maxPagesArg, okPages, tail) ==
    LET maxPages == IF maxPagesArg <= 0 THEN DefaultMaxPages ELSE maxPagesArg
        initialResp == GetLatestTopics(okPages >= 1, tail)
    IN  IF initialResp.err # NoErr
        THEN [err |-> "failed to get initial topics", topics |-> <<>>, cursor |-> 0,
              fetched |-> 1, events |-> <<LatestRequest>>]
        ELSE [LoadAllLoop(1, initialResp.topics, initialResp.cursor, maxPages + 1,
                          okPages, tail)
              EXCEPT !.events = <<LatestRequest>> \o @]

LoadAllTopics(maxPagesArg, okPages, tail) ==
    LET maxPages == IF maxPagesArg <= 0 THEN DefaultMaxPages ELSE maxPagesArg
        initialResp == GetLatestTopics(okPages >= 1, tail)
    IN  IF initialResp.err # NoErr
        THEN [err |-> "failed to get initial topics", topics |-> <<>>, cursor |-> 0,
              fetched |-> 1, events |-> <<LatestRequest>>]
        ELSE [LoadAllLoop(1, initialResp.topics, initialResp.cursor, maxPages,
                          okPages, tail)
              EXCEPT !.events = <<LatestRequest>> \o @]

\* GET {baseURL}/t/{id}.json
TopicRequest(topicID) == [url |-> "/t/{id}.json", topic |-> topicID]

\* GET {baseURL}/t/{id}/posts.json?post_ids[]=..&include_suggested=false
BatchRequest(topicID, postIDs) ==
    [url |-> "/t/{id}/posts.json", topic |-> topicID, post_ids |-> postIDs,
     include_suggested |-> "false"]

\* GetTopicPosts that asks for the posts by ID whatever the ID list is
GetTopicPostsAlwaysBatch(topicID, outcome) ==
    IF outcome = "err1"
    THEN [err |-> "failed to fetch initial topic data", posts |-> <<>>,
          requests |-> <<TopicRequest(topicID)>>,
          events |-> <<TopicRequest(topicID)>>]
    ELSE LET postIDs == PostStreamIDs(topicID)
         IN  IF outcome = "err2"
             THEN [err |-> "failed to fetch full posts", posts |-> <<>>,
                   requests |-> <<TopicRequest(topicID), BatchRequest(topicID, postIDs)>>,
                   events |-> <<TopicRequest(topicID)>>
                              \o ThrottleThen(BatchRequest(topicID, postIDs))]
             ELSE [err |-> NoErr, posts |-> BatchPosts(postIDs),
                   requests |-> <<TopicRequest(topicID), BatchRequest(topicID, postIDs)>>,
                   events |-> <<TopicRequest(topicID)>>
                              \o ThrottleThen(BatchRequest(topicID, postIDs))]

\* outcome: "ok", "err1" (topic document fails), "err2" (batch request fails);
\* requests are the HTTP requests issued, in order
GetTopicPosts(topicID, outcome) ==
    IF outcome = "err1"
    THEN [err |-> "failed to fetch initial topic data", posts |-> <<>>,
          requests |-> <<TopicRequest(topicID)>>,
          events |-> <<TopicRequest(topicID)>>]
    ELSE LET postIDs == PostStreamIDs(topicID)
         IN  IF Len(postIDs) = 0
             THEN [err |-> NoErr, posts |-> PostStreamPosts(topicID),
                   requests |-> <<TopicRequest(topicID)>>,
                   events |-> <<TopicRequest(topicID)>>]
             ELSE IF outcome = "err2"
             THEN [err |-> "failed to fetch full posts", posts |-> <<>>,
                   requests |-> <<TopicRequest(topicID), BatchRequest(topicID, postIDs)>>,
                   events |-> <<TopicRequest(topicID)>>
                              \o ThrottleThen(BatchRequest(topicID, postIDs))]
             ELSE [err |-> NoErr, posts |-> BatchPosts(postIDs),
                   requests |-> <<TopicRequest(topicID), BatchRequest(topicID, postIDs)>>,
                   events |-> <<TopicRequest(topicID)>>
                              \o ThrottleThen(BatchRequest(topicID, postIDs))]

\* GetTopicPostsPage that falls back to the full fetch for page 1 too
GetTopicPostsPageAlwaysFull(topicID, page, outcome) ==
    GetTopicPosts(topicID, outcome)

\* page 1: the topic document alone, whose request fails unless outcome is
\* "ok"; any other page: GetTopicPosts
GetTopicPostsPage(topicID, page, outcome) ==
    IF page # 1
    THEN GetTopicPosts(topicID, outcome)
    ELSE IF outcome # "ok"
    THEN [err |-> "failed to fetch initial topic page", posts |-> <<>>,
          requests |-> <<TopicRequest(topicID)>>,
          events |-> <<TopicRequest(topicID)>>]
    ELSE [err |-> NoErr, posts |-> PostStreamPosts(topicID),
          requests |-> <<TopicRequest(topicID)>>,
          events |-> <<TopicRequest(topicID)>>]

\* bodies a GET /categories.json is answered with, and what is left of one
\* when os.WriteFile fails after truncating the file
CategoryDocs ==
    {[kind |-> "json", category_list |-> <<7>>],
     [kind |-> "json", category_list |-> <<7, 8>>],
     [kind |-> "html"]}
TruncatedDoc == [kind |-> "truncated"]

\* gjson: category_list.categories of a document, nothing if there is none
ParseCategories(doc) ==
    IF "category_list" \in DOMAIN doc THEN doc.category_list ELSE <<>>

\* GET {baseURL}/categories.json
CategoriesRequest == [url |-> "/categories.json"]

\* outcomes of that request and of the write-back (MkdirAll, WriteFile)
NetOutcomes == {"ok", "transport", "status"}
WriteOutcomes == {"ok", "none", "truncated"}

\* GetCategories that does not look at the cache file
GetCategoriesNoCache(cache, outcome, body, write) ==
    IF outcome = "transport"
    THEN [err |-> "failed to fetch categories", categories |-> <<>>,
          requests |-> <<CategoriesRequest>>, cache |-> cache]
    ELSE IF outcome = "status"
    THEN [err |-> "API error", categories |-> <<>>,
          requests |-> <<CategoriesRequest>>, cache |-> cache]
    ELSE [err |-> NoErr, categories |-> ParseCategories(body),
          requests |-> <<CategoriesRequest>>,
          cache |-> IF write = "ok" THEN body
                    ELSE IF write = "truncated" THEN TruncatedDoc ELSE cache]

\* cache is the content of the cache file before the call and, in the result,
\* after it; outcome and body are the answer to the request, if one is issued
GetCategories(cache, outcome, body, write) ==
    IF cache # NoFile
    THEN [err |-> NoErr, categories |-> ParseCategories(cache), requests |-> <<>>,
          cache |-> cache]
    ELSE IF outcome = "transport"
    THEN [err |-> "failed to fetch categories", categories |-> <<>>,
          requests |-> <<CategoriesRequest>>, cache |-> cache]
    ELSE IF outcome = "status"
    THEN [err |-> "API error", categories |-> <<>>,
          requests |-> <<CategoriesRequest>>, cache |-> cache]
    ELSE [err |-> NoErr, categories |-> ParseCategories(body),
          requests |-> <<CategoriesRequest>>,
          cache |-> IF write = "ok" THEN body
                    ELSE IF write = "truncated" THEN TruncatedDoc ELSE cache]

----------------------------------------------------------------------------
(* The topic-list operations in full: request, cache write, parse and        *)
(* category enrichment.  A body is the document the forum answered with.     *)

\* a Topic as the parse leaves it: the derived fields are empty
Topic(id, categoryID) ==
    [ID |-> id, CategoryID |-> categoryID, CategoryName |-> "", CategoryColor |-> ""]

\* bodies of /latest.json and of a more_topics_url: a topic list whose second
\* topic is in a category no category document has, a JSON document without
\* topic_list, and a body that is no JSON
TopicDocs ==
    {[kind |-> "json",
      topic_list |-> [topics |-> <<[id |-> 1, category_id |-> 7],
                                   [id |-> 2, category_id |-> 9],
                                   [id |-> 3, category_id |-> 8]>>,
                      more_topics_url |-> 2]],
     [kind |-> "json", errors |-> "not logged in"],
     [kind |-> "html"]}

\* gjson: topic_list.topics and topic_list.more_topics_url of a body; what is
\* not there is empty
ParseTopics(body) ==
    IF body.kind = "json" /\ "topic_list" \in DOMAIN body
    THEN [topics |-> [i \in 1..Len(body.topic_list.topics) |->
                        Topic(body.topic_list.topics[i].id,
                              body.topic_list.topics[i].category_id)],
          cursor |-> body.topic_list.more_topics_url]
    ELSE [topics |-> <<>>, cursor |-> 0]

\* name and color of the categories of the category documents
CategoryName(id) == IF id = 7 THEN "general" ELSE "meta"
CategoryColor(id) == IF id = 7 THEN "0088CC" ELSE "808281"

\* the ids of a category list, the keys of categoryMap
CategoryIDs(categories) == {categories[i] : i \in 1..Len(categories)}

\* an enrichment that keeps the topics it has a category for
EnrichKnownOnly(topics, categories) ==
    LET Known(t) == t.CategoryID \in CategoryIDs(categories)
        kept == SelectSeq(topics, Known)
    IN  [i \in 1..Len(kept) |->
            [kept[i] EXCEPT !.CategoryName = CategoryName(kept[i].CategoryID),
                            !.CategoryColor = CategoryColor(kept[i].CategoryID)]]

\* the loop over response.TopicList.Topics with categoryMap
Enrich(topics, categories) ==
    [i \in 1..Len(topics) |->
        IF topics[i].CategoryID \in CategoryIDs(categories)
        THEN [topics[i] EXCEPT !.CategoryName = CategoryName(topics[i].CategoryID),
                               !.CategoryColor = CategoryColor(topics[i].CategoryID)]
        ELSE topics[i]]

\* answers to a topic-list request and to a categories request, each with
\* the outcome of the cache write that follows it
NoBody == [kind |-> "none"]
TopicAnswers ==
    {[net |-> "ok", body |-> body, write |-> write] :
        body \in TopicDocs, write \in WriteOutcomes}
    \cup {[net |-> net, body |-> NoBody, write |-> "none"] :
            net \in NetOutcomes \ {"ok"}}
CatAnswers ==
    {[net |-> "ok", body |-> body, write |-> write] :
        body \in CategoryDocs, write \in WriteOutcomes}
    \cup {[net |-> net, body |-> NoBody, write |-> "none"] :
            net \in NetOutcomes \ {"ok"}}

\* os.WriteFile(cachePath, body, 0600) behind os.MkdirAll
WriteCache(file, body, write) ==
    IF write = "ok" THEN body ELSE IF write = "truncated" THEN TruncatedDoc ELSE file

\* what an operation returns with an error
Failed(err, files, requests) ==
    [err |-> err, topics |-> <<>>, cursor |-> 0, requests |-> requests,
     persisted |-> <<>>, files |-> files]

\* the enrichment step with a failure of GetCategories made an error
ApplyCategoriesFatal(response, cat) ==
    LET categories == GetCategories(response.files[CatFile], cat.net, cat.body, cat.write)
    IN  IF categories.err # NoErr
        THEN Failed(categories.err, response.files,
                    response.requests \o categories.requests)
        ELSE [response EXCEPT
                !.topics = Enrich(@, categories.categories),
                !.requests = @ \o categories.requests,
                !.files = [@ EXCEPT ![CatFile] = categories.cache]]

\* categories, err := GetCategories(); on an error a warning is logged, else
\* the topics of the response are enriched
ApplyCategories(response, cat) ==
    LET categories == GetCategories(response.files[CatFile], cat.net, cat.body, cat.write)
    IN  IF categories.err # NoErr
        THEN [response EXCEPT !.requests = @ \o categories.requests]
        ELSE [response EXCEPT
                !.topics = Enrich(@, categories.categories),
                !.requests = @ \o categories.requests,
                !.files = [@ EXCEPT ![CatFile] = categories.cache]]

\* RefreshTopics: request, write of latest.json, parse
RefreshedTopics(files, ans) ==
    IF ans.net = "transport"
    THEN Failed("failed to fetch latest topics", files, <<LatestRequest>>)
    ELSE IF ans.net = "status"
    THEN Failed("API error", files, <<LatestRequest>>)
    ELSE LET parsed == ParseTopics(ans.body)
         IN  [err |-> NoErr, topics |-> parsed.topics, cursor |-> parsed.cursor,
              requests |-> <<LatestRequest>>,
              persisted |-> <<LatestFile>>,
              files |-> [files EXCEPT ![LatestFile] = WriteCache(@, ans.body, ans.write)]]

\* GetLatestTopics: the same, then the enrichment
LatestTopics(files, ans, cat) ==
    LET response == RefreshedTopics(files, ans)
    IN  IF response.err # NoErr THEN response ELSE ApplyCategories(response, cat)

\* GetMoreTopics: request, parse, enrichment; nothing is written but the
\* categories
MoreTopics(files, moreURL, ans, cat) ==
    IF moreURL = 0
    THEN Failed("no more topics URL provided", files, <<>>)
    ELSE IF ans.net = "transport"
    THEN Failed("failed to fetch more topics", files, <<MoreRequest(moreURL)>>)
    ELSE IF ans.net = "status"
    THEN Failed("API error", files, <<MoreRequest(moreURL)>>)
    ELSE LET parsed == ParseTopics(ans.body)
         IN  ApplyCategories([err |-> NoErr, topics |-> parsed.topics,
                              cursor |-> parsed.cursor,
                              requests |-> <<MoreRequest(moreURL)>>,
                              persisted |-> <<>>, files |-> files], cat)

\* the command behind refreshMsg and R: RefreshTopics, then the enrichment
RefreshCommand(files, ans, cat) ==
    LET response == RefreshedTopics(files, ans)
    IN  IF response.err # NoErr
        THEN [type |-> "topicsRefreshErrorMsg", response |-> response]
        ELSE [type |-> "topicsRefreshedMsg", response |-> ApplyCategories(response, cat)]

\* the command behind m: GetMoreTopics, then the enrichment once more
LoadMoreCommand(files, moreURL, ans, cat) ==
    LET response == MoreTopics(files, moreURL, ans, cat)
    IN  IF response.err # NoErr
        THEN [type |-> "moreTopicsLoadErrorMsg", response |-> response]
        ELSE [type |-> "moreTopicsLoadedMsg", response |-> ApplyCategories(response, cat)]

----------------------------------------------------------------------------
(* Session: cookie jar, cookie file, login.  A string is the sequence of    *)
(* its characters.                                                          *)

RECURSIVE Join(_, _)
\* strings.Join
Join(elems, sep) ==
    IF Len(elems) = 0 THEN <<>>
    ELSE IF Len(elems) = 1 THEN elems[1]
    ELSE elems[1] \o <<sep>> \o Join(Tail(elems), sep)

\* strings.Index for a one-character separator, 0 if it does not occur
Index(str, sep) ==
    IF \E i \in 1..Len(str) : str[i] = sep
    THEN CHOOSE i \in 1..Len(str) : str[i] = sep /\ \A j \in 1..(i - 1) : str[j] # sep
    ELSE 0

RECURSIVE Split(_, _)
\* strings.Split
Split(str, sep) ==
    LET i == Index(str, sep)
    IN  IF i = 0 THEN <<str>>
        ELSE <<SubSeq(str, 1, i - 1)>> \o Split(SubSeq(str, i + 1, Len(str)), sep)

\* strings.SplitN without the limit of two parts
SplitN2Unlimited(str, sep) == Split(str, sep)

\* strings.SplitN(str, sep, 2)
SplitN2(str, sep) ==
    LET i == Index(str, sep)
    IN  IF i = 0 THEN <<str>>
        ELSE <<SubSeq(str, 1, i - 1), SubSeq(str, i + 1, Len(str))>>

IsSpace(ch) == ch \in {" ", "\t", "\n", "\r"}

RECURSIVE TrimSpace(_)
\* strings.TrimSpace
TrimSpace(str) ==
    IF str = <<>> THEN str
    ELSE IF IsSpace(str[1]) THEN TrimSpace(Tail(str))
    ELSE IF IsSpace(str[Len(str)]) THEN TrimSpace(SubSeq(str, 1, Len(str) - 1))
    ELSE str

\* a jar entry; scope tells the host-only cookie from the domain cookie of
\* the same name, which the jar keeps side by side
Cookie(name, value, scope) == [name |-> name, value |-> value, scope |-> scope]

\* the cookies of the model, in the order Jar.Cookies lists them
CookieUniverse ==
    << Cookie(<<"a">>, <<"1">>, "host"),
       Cookie(<<"a">>, <<"2", "=">>, "domain"),
       Cookie(<<"a">>, <<"2", "=">>, "host"),
       Cookie(<<"b">>, <<"1", " ">>, "host"),
       Cookie(<<"b">>, <<"1">>, "host") >>

\* cookies a response sets
ServerCookies == {{}, {CookieUniverse[1]}}

SameKey(c, d) == c.name = d.name /\ c.scope = d.scope

\* Jar.SetCookies: an entry of the same name and scope is replaced
SetCookies(j, cookies) ==
    {e \in j : \A c \in cookies : ~SameKey(e, c)} \cup cookies

RECURSIVE Reverse(_)
Reverse(seq) == IF seq = <<>> THEN <<>> ELSE Reverse(Tail(seq)) \o <<Head(seq)>>

\* Jar.Cookies(baseURL): the entries as a list; the order follows creation
\* times, of which the model knows two
Cookies(j, rev) ==
    LET InJar(c) == c \in j
        listed == SelectSeq(CookieUniverse, InJar)
    IN  IF rev THEN Reverse(listed) ELSE listed

\* a file holding text
TextFile(bytes) == [kind |-> "text", bytes |-> bytes]

\* fmt.Sprintf("%s=%s", cookie.Name, cookie.Value)
CookieString(c) == c.name \o <<"=">> \o c.value

\* strings.Join(cookieStrings, "\n")
CookieText(cookies) ==
    Join([i \in 1..Len(cookies) |-> CookieString(cookies[i])], "\n")

\* os.WriteFile: written; not opened; created or truncated and then failing
FileWriteOutcomes == {"ok", "none", "truncated"}

WriteFile(file, bytes, write) ==
    IF write = "ok" THEN [err |-> NoErr, file |-> TextFile(bytes)]
    ELSE IF write = "none" THEN [err |-> "open failed", file |-> file]
    ELSE [err |-> "write failed", file |-> TextFile(<<>>)]

\* SaveCookies without the check for an empty cookie list
SaveCookiesNoCheck(cookies, file, write) ==
    WriteFile(file, CookieText(cookies), write)

\* cookies is Jar.Cookies(baseURL), file the cookie file before the call
SaveCookies(cookies, file, write) ==
    IF Len(cookies) = 0
    THEN [err |-> "no cookies to save", file |-> file]
    ELSE WriteFile(file, CookieText(cookies), write)

\* the bytes LoadCookies reads: those of a text file; an encrypted file has
\* no line with a "=" in the model
FileBytes(file) == IF file.kind = "text" THEN file.bytes ELSE <<"#">>

RECURSIVE LoadLines(_, _)
\* the loop of LoadCookies over the lines
LoadLines(j, cookies) ==
    IF cookies = <<>> THEN j
    ELSE LET cookie == Head(cookies)
             parts == SplitN2(cookie, "=")
         IN  IF cookie = <<>> \/ Len(parts) # 2
             THEN LoadLines(j, Tail(cookies))
             ELSE LoadLines(SetCookies(j, {Cookie(TrimSpace(parts[1]),
                                                  TrimSpace(parts[2]), "host")}),
                            Tail(cookies))

\* LoadCookies that gives up at a line it cannot take as name=value
LoadCookiesStrict(j, file) ==
    IF file = NoFile \/ file = Unreadable
    THEN [err |-> "failed to read cookie file", jar |-> j]
    ELSE IF \E i \in 1..Len(Split(FileBytes(file), "\n")) :
               Len(SplitN2(Split(FileBytes(file), "\n")[i], "=")) # 2
    THEN [err |-> "malformed cookie line", jar |-> j]
    ELSE [err |-> NoErr, jar |-> LoadLines(j, Split(FileBytes(file), "\n"))]

LoadCookies(j, file) ==
    IF file = NoFile \/ file = Unreadable
    THEN [err |-> "failed to read cookie file", jar |-> j]
    ELSE [err |-> NoErr, jar |-> LoadLines(j, Split(FileBytes(file), "\n"))]

\* GET {baseURL}/session/csrf and POST {baseURL}/session
CSRFRequest == [url |-> "/session/csrf"]
LoginRequest == [url |-> "/session"]

\* answers to the CSRF request: token, no answer, status not 200, empty token
CSRFOutcomes == {"ok", "transport", "status", "empty"}
\* answers to the login POST: 200, no answer, another status
PostOutcomes == {"200", "transport", "403"}

\* result.Get("csrf").Str of the answer to the CSRF request
CSRFToken(csrf) == IF csrf = "ok" THEN "csrf-token" ELSE ""

\* GetCSRFToken without the check for an empty token
GetCSRFTokenUnchecked(csrf) ==
    IF csrf = "transport"
    THEN [err |-> "failed to fetch CSRF token", token |-> ""]
    ELSE IF csrf = "status"
    THEN [err |-> "failed to get CSRF token", token |-> ""]
    ELSE [err |-> NoErr, token |-> CSRFToken(csrf)]

GetCSRFToken(csrf) ==
    IF csrf = "transport"
    THEN [err |-> "failed to fetch CSRF token", token |-> ""]
    ELSE IF csrf = "status"
    THEN [err |-> "failed to get CSRF token", token |-> ""]
    ELSE IF CSRFToken(csrf) = ""
    THEN [err |-> "empty CSRF token in response", token |-> ""]
    ELSE [err |-> NoErr, token |-> CSRFToken(csrf)]

\* the POST of Login as it is sent: the token in the form and in the header
LoginPost(token) ==
    [url |-> "/session", authenticity_token |-> token, X_CSRF_Token |-> token]

\* fmt.Errorf("failed to save cookies after login: %v", err)
SaveError(err) ==
    IF err = NoErr THEN NoErr
    ELSE IF err = "no cookies to save"
    THEN "failed to save cookies after login: no cookies to save"
    ELSE "failed to save cookies after login: write"

\* Login that saves the cookies whatever the status of the POST's answer
LoginAnyStatus(j, file, csrf, csrfCookies, post, postCookies, rev, write) ==
    IF csrf = "transport"
    THEN [err |-> "failed to get CSRF token", jar |-> j, file |-> file,
          requests |-> <<CSRFRequest>>, posted |-> <<>>]
    ELSE LET j1 == SetCookies(j, csrfCookies)
         IN  IF csrf # "ok"
             THEN [err |-> "failed to get CSRF token", jar |-> j1, file |-> file,
                   requests |-> <<CSRFRequest>>, posted |-> <<>>]
             ELSE IF post = "transport"
             THEN [err |-> "failed to login", jar |-> j1, file |-> file,
                   requests |-> <<CSRFRequest, LoginRequest>>,
                   posted |-> <<LoginPost(CSRFToken(csrf))>>]
             ELSE LET j2 == SetCookies(j1, postCookies)
                      saved == SaveCookies(Cookies(j2, rev), file, write)
                  IN  [err |-> IF post # "200" THEN "login failed"
                               ELSE SaveError(saved.err),
                       jar |-> j2, file |-> saved.file,
                       requests |-> <<CSRFRequest, LoginRequest>>,
                   posted |-> <<LoginPost(CSRFToken(csrf))>>]

\* j and file are jar and cookie file before the call; a response that
\* arrives puts its cookies into the jar
Login(j, file, csrf, csrfCookies, post, postCookies, rev, write) ==
    IF csrf = "transport"
    THEN [err |-> "failed to get CSRF token", jar |-> j, file |-> file,
          requests |-> <<CSRFRequest>>, posted |-> <<>>]
    ELSE LET j1 == SetCookies(j, csrfCookies)
         IN  IF csrf # "ok"
             THEN [err |-> "failed to get CSRF token", jar |-> j1, file |-> file,
                   requests |-> <<CSRFRequest>>, posted |-> <<>>]
             ELSE IF post = "transport"
             THEN [err |-> "failed to login", jar |-> j1, file |-> file,
                   requests |-> <<CSRFRequest, LoginRequest>>,
                   posted |-> <<LoginPost(CSRFToken(csrf))>>]
             ELSE LET j2 == SetCookies(j1, postCookies)
                  IN  IF post # "200"
                      THEN [err |-> "login failed", jar |-> j2, file |-> file,
                            requests |-> <<CSRFRequest, LoginRequest>>,
                   posted |-> <<LoginPost(CSRFToken(csrf))>>]
                      ELSE LET saved == SaveCookies(Cookies(j2, rev), file, write)
                           IN  [err |-> SaveError(saved.err),
                                jar |-> j2, file |-> saved.file,
                                requests |-> <<CSRFRequest, LoginRequest>>,
                   posted |-> <<LoginPost(CSRFToken(csrf))>>]

\* POST {baseURL}/posts.json and POST {baseURL}/post_actions
CreateTopicRequest == [url |-> "/posts.json"]
PostActionRequest == [url |-> "/post_actions"]
TokenPost(request, token) == [url |-> request.url, X_CSRF_Token |-> token]

\* answers to those POSTs: no answer or a status, and a body
PostStatuses == {"transport", "200", "201", "204", "403"}
PostBodies ==
    {[kind |-> "json", id |-> 5],
     [kind |-> "json", id |-> 0],
     [kind |-> "json", errors |-> "Title is too short"],
     [kind |-> "html"]}

\* json.Unmarshal(body, &createdPost), gjson's result.Get("id").Int()
UnmarshalPost(body) ==
    IF body.kind # "json" THEN [err |-> "invalid character", post |-> [ID |-> 0]]
    ELSE [err |-> NoErr, post |-> [ID |-> IF "id" \in DOMAIN body THEN body.id ELSE 0]]
GjsonPost(body) ==
    [ID |-> IF body.kind = "json" /\ "id" \in DOMAIN body THEN body.id ELSE 0]

NilPost == [nil |-> TRUE]

\* CreateTopic that returns whatever post it decoded
CreateTopicNoIDCheck(j, csrf, csrfCookies, post, postCookies, body) ==
    LET fetched == GetCSRFToken(csrf)
        j1 == IF csrf = "transport" THEN j ELSE SetCookies(j, csrfCookies)
    IN  IF fetched.err # NoErr
        THEN [err |-> "failed to get CSRF token for creating topic", post |-> NilPost,
              jar |-> j1, requests |-> <<CSRFRequest>>, posted |-> <<>>]
        ELSE LET sent == [requests |-> <<CSRFRequest, CreateTopicRequest>>,
                          posted |-> <<TokenPost(CreateTopicRequest, fetched.token)>>]
             IN  IF post = "transport"
                 THEN [err |-> "failed to execute create topic request",
                       post |-> NilPost, jar |-> j1] @@ sent
                 ELSE LET j2 == SetCookies(j1, postCookies)
                          decoded == UnmarshalPost(body)
                      IN  IF post # "200" /\ post # "201"
                          THEN [err |-> "create topic API error", post |-> NilPost,
                                jar |-> j2] @@ sent
                          ELSE IF decoded.err # NoErr
                          THEN [err |-> "failed to parse create topic response",
                                post |-> NilPost, jar |-> j2] @@ sent
                          ELSE [err |-> NoErr, post |-> decoded.post, jar |-> j2] @@ sent

\* j is the jar before the call; csrf and post are the answers to the two
\* requests, body the body of the second
CreateTopic(j, csrf, csrfCookies, post, postCookies, body) ==
    LET fetched == GetCSRFToken(csrf)
        j1 == IF csrf = "transport" THEN j ELSE SetCookies(j, csrfCookies)
    IN  IF fetched.err # NoErr
        THEN [err |-> "failed to get CSRF token for creating topic", post |-> NilPost,
              jar |-> j1, requests |-> <<CSRFRequest>>, posted |-> <<>>]
        ELSE LET sent == [requests |-> <<CSRFRequest, CreateTopicRequest>>,
                          posted |-> <<TokenPost(CreateTopicRequest, fetched.token)>>]
             IN  IF post = "transport"
                 THEN [err |-> "failed to execute create topic request",
                       post |-> NilPost, jar |-> j1] @@ sent
                 ELSE LET j2 == SetCookies(j1, postCookies)
                          decoded == UnmarshalPost(body)
                      IN  IF post # "200" /\ post # "201"
                          THEN [err |-> "create topic API error", post |-> NilPost,
                                jar |-> j2] @@ sent
                          ELSE IF decoded.err # NoErr
                          THEN [err |-> "failed to parse create topic response",
                                post |-> NilPost, jar |-> j2] @@ sent
                          ELSE IF decoded.post.ID = 0
                          THEN [err |-> "created post has ID 0, which is invalid",
                                post |-> NilPost, jar |-> j2] @@ sent
                          ELSE [err |-> NoErr, post |-> decoded.post, jar |-> j2] @@ sent

PerformPostAction(j, csrf, csrfCookies, post, postCookies, body) ==
    LET fetched == GetCSRFToken(csrf)
        j1 == IF csrf = "transport" THEN j ELSE SetCookies(j, csrfCookies)
    IN  IF fetched.err # NoErr
        THEN [err |-> "failed to get CSRF token for post action", post |-> NilPost,
              jar |-> j1, requests |-> <<CSRFRequest>>, posted |-> <<>>]
        ELSE LET sent == [requests |-> <<CSRFRequest, PostActionRequest>>,
                          posted |-> <<TokenPost(PostActionRequest, fetched.token)>>]
             IN  IF post = "transport"
                 THEN [err |-> "failed to perform post action", post |-> NilPost,
                       jar |-> j1] @@ sent
                 ELSE LET j2 == SetCookies(j1, postCookies)
                      IN  IF post # "200"
                          THEN [err |-> "post action API error", post |-> NilPost,
                                jar |-> j2] @@ sent
                          ELSE [err |-> NoErr, post |-> GjsonPost(body), jar |-> j2] @@ sent

----------------------------------------------------------------------------
(* pkg/crypto: a key is the pair it is derived from; a sealed message names  *)
(* the key and nonce that open it                                           *)

Passwords == {"p1", "p2"}
Salts == {"s1", "s2"}
Nonces == {"n1"}

\* pbkdf2.Key(password, salt, Iterations, KeyLength, sha256.New)
DeriveKey(password, salt) == <<password, salt>>

\* gcm.Seal(nonce, nonce, data, nil) behind the salt; size tells whether the
\* blob has its salt ("lt16": fewer than SaltLength bytes) and its nonce
\* ("lt28": fewer than SaltLength + NonceSize bytes)
EncryptData(data, password, salt, nonce) ==
    [err |-> NoErr,
     encrypted |-> [kind |-> "blob", size |-> "full", salt |-> salt, nonce |-> nonce,
                    sealed |-> [key |-> DeriveKey(password, salt), nonce |-> nonce,
                                data |-> data, intact |-> TRUE]]]

\* gcm.Open: the tag verifies under the key and nonce the message was sealed with
Open(key, nonce, sealed) ==
    sealed.intact /\ sealed.key = key /\ sealed.nonce = nonce

\* bytes that are no output of EncryptData: only their number matters
DecryptText(bytes) ==
    IF Len(bytes) < SaltLength
    THEN [err |-> "encrypted data too short", data |-> <<>>]
    ELSE IF Len(bytes) < SaltLength + NonceSize
    THEN [err |-> "ciphertext too short", data |-> <<>>]
    ELSE [err |-> "failed to decrypt", data |-> <<>>]

\* DecryptData: the two length checks, then gcm.Open under the derived key;
\* a wrong key and a changed message fail alike
DecryptData(encrypted, password) ==
    IF encrypted.kind = "text" THEN DecryptText(encrypted.bytes)
    ELSE IF encrypted.size = "lt16"
    THEN [err |-> "encrypted data too short", data |-> <<>>]
    ELSE LET key == DeriveKey(password, encrypted.salt)
         IN  IF encrypted.size = "lt28"
             THEN [err |-> "ciphertext too short", data |-> <<>>]
             ELSE IF ~Open(key, encrypted.nonce, encrypted.sealed)
             THEN [err |-> "failed to decrypt", data |-> <<>>]
             ELSE [err |-> NoErr, data |-> encrypted.sealed.data]

\* what damage makes of a blob: cut inside the salt, cut inside the nonce,
\* cut or changed behind the nonce, a changed salt
Damages == {"lt16", "lt28", "tag", "salt"}

Damaged(encrypted, damage) ==
    IF damage \in {"lt16", "lt28"} THEN [encrypted EXCEPT !.size = damage]
    ELSE IF damage = "tag" THEN [encrypted EXCEPT !.sealed.intact = FALSE]
    ELSE [encrypted EXCEPT !.salt = "s0"]

----------------------------------------------------------------------------
(* Messages *)

Msg(t, a, b) == [type |-> t, a |-> a, b |-> b]

\* refreshMsg from tea.Tick / from the command of the topicCreatedMsg handler
TickMsg == Msg("refreshMsg", 0, "tick")
RefreshNowMsg == Msg("refreshMsg", 0, "now")
KeyMsg(k) == Msg("KeyMsg", 0, k)

Send(bag, m) == bag (+) SetToBag({m})
Recv(bag, m) == bag (-) SetToBag({m})

\* the message the refresh command (tui.go 404-434, 571-601) returns
RefreshCmd(ok) ==
    IF RefreshTopics(ok, tailCursor).err # NoErr
    THEN Msg("topicsRefreshErrorMsg", 0, "")
    ELSE Msg("topicsRefreshedMsg", 0, "")

\* the message the load-more command returns; it captured m.MoreTopicsURL
MoreCmd(moreURL, ok) ==
    IF GetMoreTopics(moreURL, ok, tailCursor).err # NoErr
    THEN Msg("moreTopicsLoadErrorMsg", moreURL, "")
    ELSE Msg("moreTopicsLoadedMsg", moreURL, "")

\* the message the load-all command returns
LoadAllCmd(okPages) ==
    IF LoadAllTopics(UIMaxPages, okPages, tailCursor).err # NoErr
    THEN Msg("loadAllTopicsErrorMsg", okPages, "")
    ELSE Msg("loadAllTopicsMsg", okPages, "")

\* cmd1 of the enter handler
PostsPageCmd(topicID, outcome) ==
    IF GetTopicPostsPage(topicID, 1, outcome).err # NoErr
    THEN Msg("postsLoadErrorMsg", topicID, "page1")
    ELSE Msg("postsLoadedMsg", topicID, "page1")

\* cmd2 of the enter handler
PostsFullCmd(topicID, outcome) ==
    IF GetTopicPosts(topicID, outcome).err # NoErr
    THEN Msg("postsLoadErrorMsg", topicID, outcome)
    ELSE Msg("postsLoadedMsg", topicID, "full")

\* the command of newTopicModel.Update (Ctrl+S)
CreateCmd(ok) ==
    IF ok THEN Msg("topicCreatedMsg", 0, "") ELSE Msg("topicCreateErrorMsg", 0, "")

\* payload of a postsLoadedMsg
LoadedPosts(msg) ==
    IF msg.b = "page1" THEN GetTopicPostsPage(msg.a, 1, "ok").posts
    ELSE GetTopicPosts(msg.a, "ok").posts

----------------------------------------------------------------------------
(* Viewport content *)

VP(kind, posts, err) == [kind |-> kind, posts |-> posts, err |-> err]
NoPostErr == [op |-> "", topic |-> 0]

\* FormatPost over msg.posts.PostStream.Posts
PostsContent(msg) == VP("posts", LoadedPosts(msg), NoPostErr)

\* "Error fetching posts: %v"
ErrorContent(msg) == VP("error", <<>>, [op |-> msg.b, topic |-> msg.a])

----------------------------------------------------------------------------
(* Model.Update, stateTopicList branch.  rest is msgs without the message   *)
(* being handled; every handler starts from m.StatusMessage = "".           *)

formFrame == UNCHANGED formVars

\* StartRefresh without the isRefreshingTopics check
StartRefreshUnguarded(rest) ==
    /\ BagCardinality(rest) < MaxMsgs
    /\ isRefreshingTopics' = TRUE
    /\ StatusMessage' = "Refreshing topics..."
    /\ \E ok \in BOOLEAN : msgs' = Send(rest, RefreshCmd(ok))
    /\ UNCHANGED <<State, Topics, MoreTopicsURL, isLoadingPosts,
                   isLoadingMore, isLoadingAll, Viewport>>

\* tui.go 399-435 (refreshMsg) and 565-602 (key R): the same code
StartRefresh(rest) ==
    IF isRefreshingTopics
    THEN /\ StatusMessage' = ""
         /\ msgs' = rest
         /\ UNCHANGED <<State, Topics, MoreTopicsURL, flagVars, Viewport>>
    ELSE /\ BagCardinality(rest) < MaxMsgs
         /\ isRefreshingTopics' = TRUE
         /\ StatusMessage' = "Refreshing topics..."
         /\ \E ok \in BOOLEAN : msgs' = Send(rest, RefreshCmd(ok))
         /\ UNCHANGED <<State, Topics, MoreTopicsURL, isLoadingPosts,
                        isLoadingMore, isLoadingAll, Viewport>>

\* tui.go 436-450
OnTopicsRefreshed(msg, rest) ==
    LET response == RefreshTopics(TRUE, tailCursor)
    IN  /\ isRefreshingTopics' = FALSE
        /\ StatusMessage' = "Topics refreshed!"
        /\ Topics' = response.topics
        /\ MoreTopicsURL' = response.cursor
        /\ msgs' = Send(rest, TickMsg)
        /\ UNCHANGED <<State, isLoadingPosts, isLoadingMore, isLoadingAll, Viewport>>

\* tui.go 451-458
OnTopicsRefreshError(msg, rest) ==
    /\ isRefreshingTopics' = FALSE
    /\ StatusMessage' = "Error refreshing topics"
    /\ msgs' = Send(rest, TickMsg)
    /\ UNCHANGED <<State, Topics, MoreTopicsURL, isLoadingPosts, isLoadingMore,
                   isLoadingAll, Viewport>>

\* tui.go 459-473
OnMoreTopicsLoaded(msg, rest) ==
    LET response == GetMoreTopics(msg.a, TRUE, tailCursor)
    IN  /\ isLoadingMore' = FALSE
        /\ StatusMessage' = "Loaded more topics!"
        /\ Topics' = Topics \o response.topics
        /\ MoreTopicsURL' = response.cursor
        /\ msgs' = rest
        /\ UNCHANGED <<State, isLoadingPosts, isRefreshingTopics, isLoadingAll, Viewport>>

\* tui.go 474-478
OnMoreTopicsLoadError(msg, rest) ==
    /\ isLoadingMore' = FALSE
    /\ StatusMessage' = "Error loading more topics"
    /\ msgs' = rest
    /\ UNCHANGED <<State, Topics, MoreTopicsURL, isLoadingPosts, isRefreshingTopics,
                   isLoadingAll, Viewport>>

\* tui.go 479-493
OnLoadAllTopics(msg, rest) ==
    LET response == LoadAllTopics(UIMaxPages, msg.a, tailCursor)
    IN  /\ isLoadingAll' = FALSE
        /\ StatusMessage' = "Loaded all topics!"
        /\ Topics' = response.topics
        /\ MoreTopicsURL' = response.cursor
        /\ msgs' = rest
        /\ UNCHANGED <<State, isLoadingPosts, isRefreshingTopics, isLoadingMore, Viewport>>

\* tui.go 494-498
OnLoadAllTopicsError(msg, rest) ==
    /\ isLoadingAll' = FALSE
    /\ StatusMessage' = "Error loading all topics"
    /\ msgs' = rest
    /\ UNCHANGED <<State, Topics, MoreTopicsURL, isLoadingPosts, isRefreshingTopics,
                   isLoadingMore, Viewport>>

\* tui.go 709-721
OnPostsLoaded(msg, rest) ==
    /\ isLoadingPosts' = FALSE
    /\ Viewport' = PostsContent(msg)
    /\ StatusMessage' = ""
    /\ msgs' = rest
    /\ UNCHANGED <<State, Topics, MoreTopicsURL, isRefreshingTopics, isLoadingMore,
                   isLoadingAll>>

\* tui.go 722-729
OnPostsLoadError(msg, rest) ==
    /\ isLoadingPosts' = FALSE
    /\ Viewport' = ErrorContent(msg)
    /\ StatusMessage' = ""
    /\ msgs' = rest
    /\ UNCHANGED <<State, Topics, MoreTopicsURL, isRefreshingTopics, isLoadingMore,
                   isLoadingAll>>

\* a message or key no case of the topic-list switch changes the model for
ListIgnore(rest) ==
    /\ StatusMessage' = ""
    /\ msgs' = rest
    /\ UNCHANGED <<State, Topics, MoreTopicsURL, flagVars, Viewport>>

\* tui.go 603-640 (key m)
KeyLoadMore(rest) ==
    IF isLoadingMore \/ MoreTopicsURL = 0
    THEN ListIgnore(rest)
    ELSE /\ BagCardinality(rest) < MaxMsgs
         /\ Len(Topics) <= MaxTopics
         /\ isLoadingMore' = TRUE
         /\ StatusMessage' = "Loading more topics..."
         /\ \E ok \in BOOLEAN : msgs' = Send(rest, MoreCmd(MoreTopicsURL, ok))
         /\ UNCHANGED <<State, Topics, MoreTopicsURL, isLoadingPosts,
                        isRefreshingTopics, isLoadingAll, Viewport>>

\* tui.go 641-654 (key M)
KeyLoadAll(rest) ==
    IF isLoadingAll
    THEN ListIgnore(rest)
    ELSE /\ BagCardinality(rest) < MaxMsgs
         /\ isLoadingAll' = TRUE
         /\ StatusMessage' = "Loading all topics (this may take a while)..."
         /\ \E okPages \in OkPagesChoices : msgs' = Send(rest, LoadAllCmd(okPages))
         /\ UNCHANGED <<State, Topics, MoreTopicsURL, isLoadingPosts,
                        isRefreshingTopics, isLoadingMore, Viewport>>

\* tui.go 683-707 (key enter on the selected item)
KeyEnter(rest) ==
    \E selectedTopicID \in {Topics[i] : i \in 1..Len(Topics)} :
        IF isLoadingPosts
        THEN ListIgnore(rest)
        ELSE /\ BagCardinality(rest) + 2 <= MaxMsgs
             /\ isLoadingPosts' = TRUE
             /\ Viewport' = VP("loading", <<>>, NoPostErr)
             /\ opened' = selectedTopicID
             /\ StatusMessage' = ""
             /\ \E o1 \in {"ok", "err1"}, o2 \in {"ok", "err1", "err2"} :
                    msgs' = Send(Send(rest, PostsPageCmd(selectedTopicID, o1)),
                                 PostsFullCmd(selectedTopicID, o2))
             /\ UNCHANGED <<State, Topics, MoreTopicsURL, isRefreshingTopics,
                            isLoadingMore, isLoadingAll>>

\* tui.go 540-545 (key n)
KeyNewTopic(rest) ==
    /\ State' = "stateNewTopic"
    /\ titleInput' = ""
    /\ contentInput' = ""
    /\ categoryInput' = ""
    /\ focusIndex' = 0
    /\ submitting' = FALSE
    /\ formErr' = ""
    /\ formMessage' = ""
    /\ StatusMessage' = ""
    /\ msgs' = rest
    /\ UNCHANGED <<Topics, MoreTopicsURL, flagVars, Viewport>>

\* tui.go 396-765
UpdateTopicList(msg, rest) ==
    IF msg.type = "KeyMsg" /\ msg.b = "n"
    THEN KeyNewTopic(rest)
    ELSE /\ formFrame
         /\ CASE msg.type = "refreshMsg" -> StartRefresh(rest)
              [] msg.type = "topicsRefreshedMsg" -> OnTopicsRefreshed(msg, rest)
              [] msg.type = "topicsRefreshErrorMsg" -> OnTopicsRefreshError(msg, rest)
              [] msg.type = "moreTopicsLoadedMsg" -> OnMoreTopicsLoaded(msg, rest)
              [] msg.type = "moreTopicsLoadErrorMsg" -> OnMoreTopicsLoadError(msg, rest)
              [] msg.type = "loadAllTopicsMsg" -> OnLoadAllTopics(msg, rest)
              [] msg.type = "loadAllTopicsErrorMsg" -> OnLoadAllTopicsError(msg, rest)
              [] msg.type = "postsLoadedMsg" -> OnPostsLoaded(msg, rest)
              [] msg.type = "postsLoadErrorMsg" -> OnPostsLoadError(msg, rest)
              [] msg.type = "KeyMsg" /\ msg.b = "R" -> StartRefresh(rest)
              [] msg.type = "KeyMsg" /\ msg.b = "m" -> KeyLoadMore(rest)
              [] msg.type = "KeyMsg" /\ msg.b = "M" -> KeyLoadAll(rest)
              [] msg.type = "KeyMsg" /\ msg.b = "enter" -> KeyEnter(rest)
              [] OTHER -> ListIgnore(rest)

----------------------------------------------------------------------------
(* newTopicModel.Update (tui.go 168-256)                                     *)

TitleValues == {"", "T"}
ContentValues == {"", "C"}
CategoryValues == {"", "x", "7"}

\* strconv.Atoi(categoryStr) succeeds
IsInt(str) == str = "7"

\* the focused input handles a key: its value becomes any value of the field
\* (the tags input, focusIndex 3, is not part of the state)
EditFocused ==
    /\ titleInput' \in (IF focusIndex = 0 THEN TitleValues ELSE {titleInput})
    /\ contentInput' \in (IF focusIndex = 1 THEN ContentValues ELSE {contentInput})
    /\ categoryInput' \in (IF focusIndex = 2 THEN CategoryValues ELSE {categoryInput})

\* newTopicModel.Update that submits whatever the category field holds
FormUpdateNoAtoi(msg, rest) ==
    /\ formErr' = IF ~submitting /\ msg.type = "KeyMsg" /\ msg.b = "ctrl+s"
                     /\ (titleInput = "" \/ contentInput = "" \/ categoryInput = "")
                  THEN "title, content, and category ID are required"
                  ELSE ""
    /\ IF submitting
       THEN /\ msgs' = rest
            /\ UNCHANGED <<titleInput, contentInput, categoryInput, focusIndex,
                           submitting, formMessage>>
       ELSE IF msg.type = "KeyMsg" /\ msg.b = "ctrl+s"
       THEN IF titleInput = "" \/ contentInput = "" \/ categoryInput = ""
            THEN /\ submitting' = FALSE
                 /\ formMessage' = ""
                 /\ msgs' = rest
                 /\ UNCHANGED <<titleInput, contentInput, categoryInput, focusIndex>>
            ELSE /\ BagCardinality(rest) < MaxMsgs
                 /\ submitting' = TRUE
                 /\ formMessage' = "Submitting new topic..."
                 /\ \E ok \in BOOLEAN : msgs' = Send(rest, CreateCmd(ok))
                 /\ UNCHANGED <<titleInput, contentInput, categoryInput, focusIndex>>
       ELSE IF msg.type = "KeyMsg" /\ msg.b \in {"tab", "shift+tab"}
       THEN /\ focusIndex' = IF msg.b = "tab" THEN (focusIndex + 1) % 4
                             ELSE (focusIndex + 3) % 4
            /\ msgs' = rest
            /\ UNCHANGED <<titleInput, contentInput, categoryInput, submitting,
                           formMessage>>
       ELSE IF msg.type = "KeyMsg"
       THEN /\ EditFocused
            /\ msgs' = rest
            /\ UNCHANGED <<focusIndex, submitting, formMessage>>
       ELSE /\ msgs' = rest
            /\ UNCHANGED <<titleInput, contentInput, categoryInput, focusIndex,
                           submitting, formMessage>>

FormUpdate(msg, rest) ==
    /\ formErr' = IF ~submitting /\ msg.type = "KeyMsg" /\ msg.b = "ctrl+s"
                     /\ (titleInput = "" \/ contentInput = "" \/ categoryInput = "")
                  THEN "title, content, and category ID are required"
                  ELSE IF ~submitting /\ msg.type = "KeyMsg" /\ msg.b = "ctrl+s"
                          /\ ~IsInt(categoryInput)
                  THEN "invalid category ID"
                  ELSE ""
    /\ IF submitting
       THEN /\ msgs' = rest
            /\ UNCHANGED <<titleInput, contentInput, categoryInput, focusIndex,
                           submitting, formMessage>>
       ELSE IF msg.type = "KeyMsg" /\ msg.b = "ctrl+s"
       THEN IF titleInput = "" \/ contentInput = "" \/ categoryInput = ""
               \/ ~IsInt(categoryInput)
            THEN /\ submitting' = FALSE
                 /\ formMessage' = ""
                 /\ msgs' = rest
                 /\ UNCHANGED <<titleInput, contentInput, categoryInput, focusIndex>>
            ELSE /\ BagCardinality(rest) < MaxMsgs
                 /\ submitting' = TRUE
                 /\ formMessage' = "Submitting new topic..."
                 /\ \E ok \in BOOLEAN : msgs' = Send(rest, CreateCmd(ok))
                 /\ UNCHANGED <<titleInput, contentInput, categoryInput, focusIndex>>
       ELSE IF msg.type = "KeyMsg" /\ msg.b \in {"tab", "shift+tab"}
       THEN /\ focusIndex' = IF msg.b = "tab" THEN (focusIndex + 1) % 4
                             ELSE (focusIndex + 3) % 4
            /\ msgs' = rest
            /\ UNCHANGED <<titleInput, contentInput, categoryInput, submitting,
                           formMessage>>
       ELSE IF msg.type = "KeyMsg"
       THEN /\ EditFocused
            /\ msgs' = rest
            /\ UNCHANGED <<focusIndex, submitting, formMessage>>
       ELSE /\ msgs' = rest
            /\ UNCHANGED <<titleInput, contentInput, categoryInput, focusIndex,
                           submitting, formMessage>>

----------------------------------------------------------------------------
(* Model.Update, stateNewTopic branch (tui.go 368-394)                       *)

UpdateNewTopic(msg, rest) ==
    IF msg.type = "KeyMsg" /\ msg.b = "esc"
    THEN /\ State' = "stateTopicList"
         /\ formMessage' = ""
         /\ formErr' = ""
         /\ StatusMessage' = ""
         /\ msgs' = rest
         /\ UNCHANGED <<Topics, MoreTopicsURL, flagVars, Viewport, titleInput,
                        contentInput, categoryInput, focusIndex, submitting>>
    ELSE IF msg.type = "topicCreatedMsg"
    THEN /\ State' = "stateTopicList"
         /\ StatusMessage' = "Topic created!"
         /\ submitting' = FALSE
         /\ formMessage' = ""
         /\ msgs' = Send(rest, RefreshNowMsg)
         /\ UNCHANGED <<Topics, MoreTopicsURL, flagVars, Viewport, titleInput,
                        contentInput, categoryInput, focusIndex, formErr>>
    ELSE IF msg.type = "topicCreateErrorMsg"
    THEN /\ formErr' = "create failed"
         /\ submitting' = FALSE
         /\ formMessage' = ""
         /\ StatusMessage' = ""
         /\ msgs' = rest
         /\ UNCHANGED <<State, Topics, MoreTopicsURL, flagVars, Viewport, titleInput,
                        contentInput, categoryInput, focusIndex>>
    ELSE /\ FormUpdate(msg, rest)
         /\ StatusMessage' = ""
         /\ UNCHANGED <<State, Topics, MoreTopicsURL, flagVars, Viewport>>

\* Model.Update (tui.go 361-767)
Update(msg, rest) ==
    /\ IF State = "stateNewTopic"
       THEN UpdateNewTopic(msg, rest)
       ELSE UpdateTopicList(msg, rest)
    /\ last' = (IF msg.type = "KeyMsg" THEN msg.b ELSE msg.type)
    /\ IF State = "stateTopicList" /\ msg = KeyMsg("enter") /\ ~isLoadingPosts
       THEN TRUE
       ELSE opened' = opened
    /\ UNCHANGED <<tailCursor, clientVars>>

----------------------------------------------------------------------------
(* The program: InitialModel and Model.Init (tui.go 307-357), then one       *)
(* message or key at a time                                                 *)

InitialModel ==
    /\ State = "stateTopicList"
    /\ Topics = PageTopics(1)
    /\ MoreTopicsURL = 0
    /\ isLoadingPosts = FALSE
    /\ isRefreshingTopics = FALSE
    /\ isLoadingMore = FALSE
    /\ isLoadingAll = FALSE
    /\ StatusMessage = ""
    /\ Viewport = VP("empty", <<>>, NoPostErr)
    /\ opened = 0
    /\ titleInput = ""
    /\ contentInput = ""
    /\ categoryInput = ""
    /\ focusIndex = 0
    /\ submitting = FALSE
    /\ formErr = ""
    /\ formMessage = ""
    /\ msgs = SetToBag({TickMsg})
    /\ last = ""

\* no client operation called yet, cookiejar.New(nil), no file written yet
ClientIdle ==
    /\ call = NoCall
    /\ jar = {}
    /\ disk = [f \in Files |-> NoFile]
    /\ client = NewClient(PlaceholderURL, CookieFile).client
    /\ main = NoMain

Init ==
    /\ InitialModel
    /\ tailCursor \in {0, 2}
    /\ ClientIdle

\* the same, the forum's last page ending the list
InitChain == Init /\ tailCursor = 0

Deliver(type) ==
    \E msg \in BagToSet(msgs) : msg.type = type /\ Update(msg, Recv(msgs, msg))

Press(k) == Update(KeyMsg(k), msgs)

RefreshTick == Deliver("refreshMsg")
TopicsRefreshed == Deliver("topicsRefreshedMsg")
TopicsRefreshError == Deliver("topicsRefreshErrorMsg")
MoreTopicsLoaded == Deliver("moreTopicsLoadedMsg")
MoreTopicsLoadError == Deliver("moreTopicsLoadErrorMsg")
LoadAllTopicsDone == Deliver("loadAllTopicsMsg")
LoadAllTopicsError == Deliver("loadAllTopicsErrorMsg")
PostsLoaded == Deliver("postsLoadedMsg")
PostsLoadError == Deliver("postsLoadErrorMsg")
TopicCreated == Deliver("topicCreatedMsg")
TopicCreateError == Deliver("topicCreateErrorMsg")
PressR == Press("R")
PressLoadMore == Press("m")
PressLoadAll == Press("M")
PressN == Press("n")
PressEnter == Press("enter")
PressEsc == Press("esc")
PressCtrlS == Press("ctrl+s")
PressTab == Press("tab")
PressShiftTab == Press("shift+tab")
PressChar == Press("char")
WindowSize == Update(Msg("WindowSizeMsg", 0, ""), msgs)

(* Three specifications of the same program, each with a user who works one  *)
(* part of the interface.  The parts share no state but State, msgs and      *)
(* StatusMessage: the topic-list handlers never read the viewport, the       *)
(* post flag or the form, and the other way round.                           *)

\* topic-list synchronisation: timer, refresh, load more, load all, and the
\* user opening and leaving the new-topic form
Next ==
    \/ RefreshTick
    \/ TopicsRefreshed
    \/ TopicsRefreshError
    \/ MoreTopicsLoaded
    \/ MoreTopicsLoadError
    \/ LoadAllTopicsDone
    \/ LoadAllTopicsError
    \/ PressR
    \/ PressLoadMore
    \/ PressLoadAll
    \/ PressN
    \/ PressEsc
    \/ WindowSize

Spec == Init /\ [][Next]_vars

\* opening topics, with the user opening and leaving the new-topic form
NextPosts ==
    \/ PostsLoaded
    \/ PostsLoadError
    \/ PressEnter
    \/ PressN
    \/ PressEsc
    \/ WindowSize

SpecPosts == InitChain /\ [][NextPosts]_vars

\* the new-topic form and the refresh that follows a created topic
NextForm ==
    \/ TopicCreated
    \/ TopicCreateError
    \/ RefreshTick
    \/ TopicsRefreshed
    \/ TopicsRefreshError
    \/ PressN
    \/ PressEsc
    \/ PressCtrlS
    \/ PressTab
    \/ PressShiftTab
    \/ PressChar
    \/ WindowSize

SpecForm == InitChain /\ [][NextForm]_vars

----------------------------------------------------------------------------
(* The client's operations called directly, on a forum whose last page ends  *)
(* the list (0), points back to a page (1..NumPages) or points to a page     *)
(* past the end, which has no topics (NumPages + 1)                          *)

TailChoices == 0..(NumPages + 1)
MaxPagesChoices == (-1)..MaxPagesArg

\* how many requests of one call succeed before one fails; the last choice is
\* more than any call issues
RequestChoices == 0..(DefaultMaxPages + 1)

InitFetch ==
    /\ InitialModel
    /\ tailCursor \in TailChoices
    /\ ClientIdle

\* every page LoadAllTopics fetches is enriched through GetCategories, whose
\* request, on a miss, is answered the same way each time during one call
CallLoadAllTopics ==
    /\ \E maxPages \in MaxPagesChoices, okPages \in RequestChoices :
          call' = [op |-> "LoadAllTopics", maxPages |-> maxPages, okPages |-> okPages,
                   pageCooldown |-> client.pageCooldown,
                   result |-> LoadAllTopics(maxPages, okPages, tailCursor)]
    /\ disk' \in {[disk EXCEPT ![CatFile] =
                       IF call'.okPages >= 1
                       THEN GetCategories(disk[CatFile], outcome, body, write).cache
                       ELSE disk[CatFile]] :
                   outcome \in NetOutcomes, body \in CategoryDocs, write \in WriteOutcomes}
    /\ UNCHANGED <<uiVars, tailCursor, jar, client, main>>

\* the topics of the forum's pages
TopicIDs == 1..(NumPages + 1)

CallGetTopicPosts ==
    /\ \E topicID \in TopicIDs, outcome \in {"ok", "err1", "err2"} :
          call' = [op |-> "GetTopicPosts", topicID |-> topicID, outcome |-> outcome,
                   pageCooldown |-> client.pageCooldown,
                   result |-> GetTopicPosts(topicID, outcome)]
    /\ UNCHANGED <<uiVars, tailCursor, jar, disk, client, main>>

\* page numbers a caller passes
PageNumbers == {0, 1, 2}

CallGetTopicPostsPage ==
    /\ \E topicID \in TopicIDs, page \in PageNumbers :
          \E outcome \in IF page = 1 THEN {"ok", "err1"} ELSE {"ok", "err1", "err2"} :
             call' = [op |-> "GetTopicPostsPage", topicID |-> topicID, page |-> page,
                      outcome |-> outcome,
                      result |-> GetTopicPostsPage(topicID, page, outcome)]
    /\ UNCHANGED <<uiVars, tailCursor, jar, disk, client, main>>

CallGetCategories ==
    /\ \E outcome \in NetOutcomes, body \in CategoryDocs, write \in WriteOutcomes :
          call' = [op |-> "GetCategories", cache |-> disk[CatFile], outcome |-> outcome,
                   body |-> body, write |-> write,
                   result |-> GetCategories(disk[CatFile], outcome, body, write)]
    /\ disk' = [disk EXCEPT ![CatFile] = call'.result.cache]
    /\ UNCHANGED <<uiVars, tailCursor, jar, client, main>>

\* main -reset-cache: os.RemoveAll of the instances directory, which may fail
ResetCache ==
    /\ \E removed \in BOOLEAN :
          /\ call' = [op |-> "reset-cache", removed |-> removed]
          /\ disk' = [disk EXCEPT ![CatFile] = IF removed THEN NoFile ELSE @,
                                  ![LatestFile] = IF removed THEN NoFile ELSE @]
    /\ UNCHANGED <<uiVars, tailCursor, jar, client, main>>

NextFetch ==
    \/ CallLoadAllTopics
    \/ CallGetTopicPosts
    \/ CallGetTopicPostsPage
    \/ CallGetCategories
    \/ ResetCache

SpecFetch == InitFetch /\ [][NextFetch]_vars

----------------------------------------------------------------------------
(* The session operations called directly                                   *)

\* the jars a client may hold: one entry per name and scope
Jars ==
    {j \in SUBSET {CookieUniverse[i] : i \in 1..Len(CookieUniverse)} :
        /\ Cardinality(j) <= MaxCookies
        /\ \A c, d \in j : SameKey(c, d) => c = d}

\* a cookie file left by an earlier run, with a blank and a malformed line
OldCookieFile == TextFile(<<"b", "=", "1", "\n", "\n", "x">>)

InitSession ==
    /\ InitialModel
    /\ tailCursor = 0
    /\ call = NoCall
    /\ client = NewClient(PlaceholderURL, CookieFile).client
    /\ main = NoMain
    /\ jar \in Jars
    /\ disk \in {[f \in Files |-> IF f = CookieFile THEN file ELSE NoFile] :
                    file \in {NoFile, OldCookieFile}}

sessionFrame == UNCHANGED <<uiVars, tailCursor, client, main>>

CallSaveCookies ==
    /\ \E rev \in BOOLEAN, write \in FileWriteOutcomes :
          LET cookies == Cookies(jar, rev)
              saved == SaveCookies(cookies, disk[CookieFile], write)
          IN  /\ call' = [op |-> "SaveCookies", cookies |-> cookies,
                          before |-> disk[CookieFile], err |-> saved.err]
              /\ disk' = [disk EXCEPT ![CookieFile] = saved.file]
    /\ UNCHANGED jar
    /\ sessionFrame

\* LoadCookies on this client, or on a client NewClient has just returned
CallLoadCookies ==
    /\ \E fresh \in BOOLEAN :
          LET loaded == LoadCookies(IF fresh THEN {} ELSE jar, disk[CookieFile])
          IN  /\ call' = [op |-> "LoadCookies", fresh |-> fresh, err |-> loaded.err]
              /\ jar' = loaded.jar
    /\ UNCHANGED disk
    /\ sessionFrame

\* the calls of Login on jar j and cookie file file, each with its result
LoginCalls(j, file) ==
    {[csrf |-> csrf, post |-> post,
      result |-> Login(j, file, csrf, csrfCookies, post, postCookies, rev, write)] :
        csrf \in CSRFOutcomes, csrfCookies \in ServerCookies, post \in PostOutcomes,
        postCookies \in ServerCookies, rev \in BOOLEAN, write \in FileWriteOutcomes}

CallLogin ==
    /\ \E c \in LoginCalls(jar, disk[CookieFile]) :
          /\ call' = [op |-> "Login", before |-> disk[CookieFile], csrf |-> c.csrf,
                      post |-> c.post, err |-> c.result.err,
                      requests |-> c.result.requests, posted |-> c.result.posted]
          /\ jar' = c.result.jar
          /\ disk' = [disk EXCEPT ![CookieFile] = c.result.file]
    /\ sessionFrame

\* the content of the cookie file is replaced by EncryptData of it
CallEncryptData ==
    /\ disk[CookieFile].kind = "text"
    /\ \E password \in Passwords, salt \in Salts, nonce \in Nonces :
          LET r == EncryptData(disk[CookieFile].bytes, password, salt, nonce)
          IN  /\ call' = [op |-> "EncryptData", data |-> disk[CookieFile].bytes,
                          password |-> password, err |-> r.err]
              /\ disk' = [disk EXCEPT ![CookieFile] = r.encrypted]
    /\ UNCHANGED jar
    /\ sessionFrame

\* the content of the cookie file is replaced by DecryptData of it, if that
\* succeeds
CallDecryptData ==
    /\ disk[CookieFile] # NoFile
    /\ \E password \in Passwords :
          LET r == DecryptData(disk[CookieFile], password)
          IN  /\ call' = [op |-> "DecryptData", encrypted |-> disk[CookieFile],
                          password |-> password, err |-> r.err]
              /\ disk' = [disk EXCEPT ![CookieFile] =
                             IF r.err = NoErr THEN TextFile(r.data) ELSE @]
    /\ UNCHANGED jar
    /\ sessionFrame

\* the encrypted file is damaged on the disk
DamageFile ==
    /\ disk[CookieFile].kind = "blob"
    /\ disk[CookieFile].size = "full" /\ disk[CookieFile].sealed.intact
    /\ disk[CookieFile].salt \in Salts
    /\ \E damage \in Damages :
          /\ call' = [op |-> "damage", damage |-> damage]
          /\ disk' = [disk EXCEPT ![CookieFile] = Damaged(@, damage)]
    /\ UNCHANGED jar
    /\ sessionFrame

\* logging in, saving and loading the session
NextSession ==
    \/ CallSaveCookies
    \/ CallLoadCookies
    \/ CallLogin

SpecSession == InitSession /\ [][NextSession]_vars

\* the calls of a writing operation on jar j, each with its result
WriteCalls(Op(_, _, _, _, _, _), j) ==
    {[csrf |-> csrf, post |-> post, body |-> body,
      result |-> Op(j, csrf, csrfCookies, post, postCookies, body)] :
        csrf \in CSRFOutcomes, csrfCookies \in ServerCookies, post \in PostStatuses,
        postCookies \in ServerCookies, body \in PostBodies}

CallCreateTopic ==
    /\ \E c \in WriteCalls(CreateTopic, jar) :
          /\ call' = [op |-> "CreateTopic", csrf |-> c.csrf, post |-> c.post,
                      body |-> c.body, err |-> c.result.err, created |-> c.result.post,
                      requests |-> c.result.requests, posted |-> c.result.posted]
          /\ jar' = c.result.jar
    /\ UNCHANGED disk
    /\ sessionFrame

CallPerformPostAction ==
    /\ \E c \in WriteCalls(PerformPostAction, jar) :
          /\ call' = [op |-> "PerformPostAction", csrf |-> c.csrf, post |-> c.post,
                      body |-> c.body, err |-> c.result.err, updated |-> c.result.post,
                      requests |-> c.result.requests, posted |-> c.result.posted]
          /\ jar' = c.result.jar
    /\ UNCHANGED disk
    /\ sessionFrame

\* the operations that change something on the forum
NextWrite ==
    \/ CallLogin
    \/ CallCreateTopic
    \/ CallPerformPostAction

SpecWrite == InitChain /\ [][NextWrite]_vars

\* the cookie file, in the clear and encrypted
NextStore ==
    \/ CallSaveCookies
    \/ CallLoadCookies
    \/ CallEncryptData
    \/ CallDecryptData
    \/ DamageFile

SpecStore == InitSession /\ [][NextStore]_vars

----------------------------------------------------------------------------
(* The topic-list operations and the two commands called directly           *)

\* the answer to the categories request matters when the cache file is
\* missing; otherwise no request is issued
CatChoices == IF disk[CatFile] = NoFile THEN CatAnswers
              ELSE {[net |-> "transport", body |-> NoBody, write |-> "none"]}

\* call is the operation, what it was answered, the categories cache it found
\* and what it returned; the files are left as the operation leaves them
TopicsCall(op, moreURL, ans, cat, response, type) ==
    /\ call' = [op |-> op, moreURL |-> moreURL, ans |-> ans, cat |-> cat,
                catCache |-> disk[CatFile], type |-> type,
                result |-> [err |-> response.err, topics |-> response.topics,
                            cursor |-> response.cursor,
                            requests |-> response.requests,
                            persisted |-> response.persisted]]
    /\ disk' = response.files
    /\ UNCHANGED <<uiVars, tailCursor, jar, client, main>>

CallGetLatestTopics ==
    \E ans \in TopicAnswers, cat \in CatChoices :
       TopicsCall("GetLatestTopics", 0, ans, cat, LatestTopics(disk, ans, cat), "")

CallRefreshTopics ==
    \E ans \in TopicAnswers :
       TopicsCall("RefreshTopics", 0, ans, [net |-> "transport", body |-> NoBody,
                                            write |-> "none"],
                  RefreshedTopics(disk, ans), "")

CallGetMoreTopics ==
    \E moreURL \in {0, 2}, ans \in TopicAnswers, cat \in CatChoices :
       TopicsCall("GetMoreTopics", moreURL, ans, cat,
                  MoreTopics(disk, moreURL, ans, cat), "")

RunRefreshCmd ==
    \E ans \in TopicAnswers, cat \in CatChoices :
       LET msg == RefreshCommand(disk, ans, cat)
       IN  TopicsCall("refresh command", 0, ans, cat, msg.response, msg.type)

\* m is not handled with an empty MoreTopicsURL
RunLoadMoreCmd ==
    \E ans \in TopicAnswers, cat \in CatChoices :
       LET msg == LoadMoreCommand(disk, 2, ans, cat)
       IN  TopicsCall("load-more command", 2, ans, cat, msg.response, msg.type)

NextTopics ==
    \/ CallGetLatestTopics
    \/ CallRefreshTopics
    \/ CallGetMoreTopics
    \/ RunRefreshCmd
    \/ RunLoadMoreCmd
    \/ ResetCache

SpecTopics == InitChain /\ [][NextTopics]_vars

\* the loop of LoadAllTopics over the topic-list operations in full: response
\* is what was accumulated, answers[i] the answer to the i-th page request
RECURSIVE AllTopicsLoop(_, _, _, _, _)
AllTopicsLoop(page, response, maxPages, answers, cat) ==
    IF page < maxPages /\ response.cursor # 0
    THEN LET moreResp == MoreTopics(response.files, response.cursor,
                                    answers[page + 1], cat)
         IN  IF moreResp.err # NoErr
             THEN [response EXCEPT !.requests = @ \o moreResp.requests]
             ELSE LET next == [response EXCEPT
                                  !.topics = @ \o moreResp.topics,
                                  !.cursor = moreResp.cursor,
                                  !.requests = @ \o moreResp.requests,
                                  !.files = moreResp.files]
                  IN  IF Len(moreResp.topics) = 0 THEN next
                      ELSE AllTopicsLoop(page + 1, next, maxPages, answers, cat)
    ELSE response

\* LoadAllTopics over GetLatestTopics and GetMoreTopics in full
AllTopics(files, maxPagesArg, answers, cat) ==
    LET maxPages == IF maxPagesArg <= 0 THEN DefaultMaxPages ELSE maxPagesArg
        initialResp == LatestTopics(files, answers[1], cat)
    IN  IF initialResp.err # NoErr
        THEN Failed("failed to get initial topics", initialResp.files,
                    initialResp.requests)
        ELSE AllTopicsLoop(1, initialResp, maxPages, answers, cat)

\* the last page of a forum: a topic list with an empty more_topics_url
LastPageDoc ==
    [kind |-> "json",
     topic_list |-> [topics |-> <<[id |-> 4, category_id |-> 7]>>,
                     more_topics_url |-> 0]]

\* answers to the page requests of one LoadAllTopics: a page, the last page,
\* a body that is no JSON, and a request that failed
PageAnswers ==
    {[net |-> "ok", body |-> body, write |-> "ok"] :
        body \in {d \in TopicDocs : "errors" \notin DOMAIN d} \cup {LastPageDoc}}
    \cup {[net |-> "transport", body |-> NoBody, write |-> "none"]}

\* page limits of the calls, one answer for each request they can make
PagingLimits == {2, 3}

CallAllTopics ==
    \E maxPages \in PagingLimits, answers \in [1..3 -> PageAnswers],
       cat \in CatChoices :
       TopicsCall("LoadAllTopics", maxPages, answers, cat,
                  AllTopics(disk, maxPages, answers, cat), "")

NextPaging ==
    \/ CallAllTopics
    \/ ResetCache

SpecPaging == InitChain /\ [][NextPaging]_vars

----------------------------------------------------------------------------
(* Creating and configuring a client                                        *)

RECURSIVE Slashes(_)
Slashes(n) == IF n = 0 THEN <<>> ELSE <<"/">> \o Slashes(n - 1)

\* base URLs given to NewClient: with and without a scheme, with a host, a
\* host and a path or nothing behind it, with slashes at the end
Schemes == {<<>>, Http, Https}
Hosts == {<<>>, <<"a">>, <<"a", "/", "b">>, <<"h", "t", "t", "p">>}
BaseURLs == {scheme \o host \o Slashes(n) :
                scheme \in Schemes, host \in Hosts, n \in 0..MaxSlashes}

\* values of the -cooldown flag, in milliseconds
Cooldowns == {0, DefaultCooldown, 2 * DefaultCooldown}

\* client, err = NewClient(..): the client is taken if there is no error
CallNewClient ==
    /\ \E baseURL \in BaseURLs, cookiesPath \in {CookieFile, CustomCookieFile} :
          LET r == NewClient(baseURL, cookiesPath)
          IN  /\ call' = [op |-> "NewClient", baseURL |-> baseURL, err |-> r.err]
              /\ client' = IF r.err = NoErr THEN r.client ELSE client
              /\ jar' = IF r.err = NoErr THEN {} ELSE jar
    /\ UNCHANGED <<uiVars, tailCursor, disk, main>>

CallSetPageCooldown ==
    /\ \E d \in Cooldowns :
          /\ call' = [op |-> "SetPageCooldown", d |-> d]
          /\ client' = SetPageCooldown(client, d)
    /\ UNCHANGED <<uiVars, tailCursor, jar, disk, main>>

NextClient ==
    \/ CallNewClient
    \/ CallSetPageCooldown

SpecClient == InitChain /\ [][NextClient]_vars

----------------------------------------------------------------------------
(* main: one run of the program after another.  main.pc is where the run   *)
(* is: "login" while the login program runs, "quit" when it has ended,      *)
(* "load" before LoadCookies, "fetch" before the topics are loaded, "tui"   *)
(* in the main program, "exit" after os.Exit.                               *)

\* values of the -cookies and -url flags, "" and <<>> when not given, of the
\* saved instance, and of the URL field of the login screen
CookiesFlags == {"", CustomCookieFile}
URLFlags == {<<>>, <<"a">>}
SavedInstances == {<<>>, <<"a">>}
LoginURLs == {<<>>, <<"a">>}
LoginNames == {"", "user"}
CooldownFlags == {DefaultCooldown}

\* defaultCookiesPath
DefaultCookiesPath(cookiesPath) ==
    IF cookiesPath # "" THEN cookiesPath ELSE CookieFile

\* os.Exit(code), and a run that is over
Exit(m, code) == [m EXCEPT !.pc = "exit", !.code = code]
Ended(m) == m.pc \in {"", "exit", "tui"}

\* a run as flag.Parse leaves it
Started(logout, cookies, cooldown, output) ==
    [pc |-> "start", logout |-> logout, cookies |-> cookies,
     cooldown |-> cooldown, output |-> output,
     path |-> DefaultCookiesPath(cookies), absent |-> FALSE, login |-> FALSE,
     instanceURL |-> <<>>, topics |-> 0, code |-> 0]

\* main with -logout: os.Remove of cookies.txt in the user's configuration
\* directory; removed tells whether a remove of a file that is there succeeds
MainLogout ==
    /\ Ended(main)
    /\ \E cookies \in CookiesFlags, removed \in BOOLEAN :
          LET m == Started(TRUE, cookies, DefaultCooldown, FALSE)
          IN  IF disk[CookieFile] = NoFile
              THEN main' = Exit(m, 0) /\ disk' = disk
              ELSE IF ~removed
              THEN main' = Exit(m, 1) /\ disk' = disk
              ELSE /\ main' = Exit(m, 0)
                   /\ disk' = [disk EXCEPT ![CookieFile] = NoFile]
    /\ UNCHANGED <<uiVars, tailCursor, call, jar, client>>

\* main without -logout and -reset-cache up to os.Stat(defaultCookiesPath):
\* the client for -url, for the saved instance or for the placeholder
MainStart ==
    /\ Ended(main)
    /\ \E cookies \in CookiesFlags, url \in URLFlags, saved \in SavedInstances,
          cooldown \in CooldownFlags, output \in BOOLEAN :
          LET m == Started(FALSE, cookies, cooldown, output)
              made == IF url # <<>> THEN NewClient(url, m.path)
                      ELSE IF saved # <<>> THEN NewClient(saved, m.path)
                      ELSE NewClient(PlaceholderURL, m.path)
          IN  IF made.err # NoErr
              THEN main' = Exit(m, 1) /\ UNCHANGED <<client, jar>>
              ELSE /\ client' = SetPageCooldown(made.client, cooldown)
                   /\ jar' = {}
                   /\ main' = IF disk[m.path] = NoFile
                              THEN [m EXCEPT !.pc = "login", !.absent = TRUE,
                                             !.login = TRUE]
                              ELSE [m EXCEPT !.pc = "load"]
    /\ UNCHANGED <<uiVars, tailCursor, call, disk>>

\* loginModel.Update, Enter on the last field: an empty field or a failure
\* of NewClient or of Login sets m.err and leaves the program running; the
\* jar of the new client holds the cookies of this one login, in one order
LoginEnter ==
    /\ main.pc = "login"
    /\ \E instanceURL \in LoginURLs, username \in LoginNames, password \in LoginNames :
          LET typed == [main EXCEPT !.instanceURL = instanceURL]
              newClient == NewClient(instanceURL, client.cookiesPath)
          IN  IF instanceURL = <<>> \/ username = "" \/ password = ""
                 \/ newClient.err # NoErr
              THEN /\ main' = typed
                   /\ UNCHANGED <<client, jar, disk>>
              ELSE \E csrf \in CSRFOutcomes, csrfCookies \in ServerCookies,
                      post \in PostOutcomes, postCookies \in ServerCookies,
                      write \in FileWriteOutcomes :
                      LET logged == Login({}, disk[client.cookiesPath], csrf,
                                          csrfCookies, post, postCookies, FALSE,
                                          write)
                      IN  /\ client' = newClient.client
                          /\ jar' = logged.jar
                          /\ disk' = [disk EXCEPT ![client.cookiesPath] = logged.file]
                          /\ main' = IF logged.err # NoErr THEN typed
                                     ELSE [typed EXCEPT !.pc = "quit"]
    /\ UNCHANGED <<uiVars, tailCursor, call>>

\* loginModel.Update, Ctrl+C or Esc, with what the URL field holds then
LoginQuit ==
    /\ main.pc = "login"
    /\ \E instanceURL \in LoginURLs :
          main' = [main EXCEPT !.pc = "quit", !.instanceURL = instanceURL]
    /\ UNCHANGED <<uiVars, tailCursor, call, jar, disk, client>>

\* p.Run() of the login program returns an error
LoginRunError ==
    /\ main.pc = "login"
    /\ main' = Exit(main, 1)
    /\ UNCHANGED <<uiVars, tailCursor, call, jar, disk, client>>

\* main after the login program: the second os.Stat, the client for the URL
\* of the login screen, and GetCategories, whose error is only logged
MainAfterLogin ==
    /\ main.pc = "quit"
    /\ \E cat \in CatChoices :
          LET made == NewClient(main.instanceURL, main.path)
              categories == GetCategories(disk[CatFile], cat.net, cat.body, cat.write)
          IN  IF disk[main.path] = NoFile \/ made.err # NoErr
              THEN main' = Exit(main, 1) /\ UNCHANGED <<client, jar, disk>>
              ELSE /\ client' = SetPageCooldown(made.client, main.cooldown)
                   /\ jar' = {}
                   /\ disk' = [disk EXCEPT ![CatFile] = categories.cache]
                   /\ main' = [main EXCEPT !.pc = "load"]
    /\ UNCHANGED <<uiVars, tailCursor, call>>

\* main going on to the topics whatever LoadCookies returns
MainLoadCookiesIgnoreError ==
    /\ main.pc = "load"
    /\ jar' = LoadCookies(jar, disk[main.path]).jar
    /\ main' = [main EXCEPT !.pc = "fetch"]
    /\ UNCHANGED <<uiVars, tailCursor, call, disk, client>>

\* client.LoadCookies(defaultCookiesPath)
MainLoadCookies ==
    /\ main.pc = "load"
    /\ LET loaded == LoadCookies(jar, disk[main.path])
       IN  IF loaded.err # NoErr
           THEN main' = Exit(main, 1) /\ jar' = jar
           ELSE main' = [main EXCEPT !.pc = "fetch"] /\ jar' = loaded.jar
    /\ UNCHANGED <<uiVars, tailCursor, call, disk, client>>

\* json.Unmarshal of the cached latest.json into a Response
UnmarshalTopics(file) ==
    IF file.kind = "json"
    THEN [err |-> NoErr, topics |-> ParseTopics(file).topics,
          cursor |-> ParseTopics(file).cursor]
    ELSE [err |-> "unmarshal", topics |-> <<>>, cursor |-> 0]

\* json.MarshalIndent of a Response
MarshalTopics(response) ==
    [kind |-> "json",
     topic_list |-> [topics |-> [i \in 1..Len(response.topics) |->
                                   [id |-> response.topics[i].ID,
                                    category_id |-> response.topics[i].CategoryID]],
                     more_topics_url |-> response.cursor]]

\* main from the read of the cached topics to the start of the main program:
\* the cache when it parses and has topics, else GetLatestTopics, the
\* enrichment and the write of the cache; -output writes a file and exits
MainFetch ==
    /\ main.pc = "fetch"
    /\ \E written \in IF main.output THEN BOOLEAN ELSE {TRUE} :
          LET cached == UnmarshalTopics(disk[LatestFile])
              Finish(topics) ==
                  LET m == [main EXCEPT !.topics = Len(topics)]
                  IN  IF Len(topics) = 0 THEN Exit(m, 1)
                      ELSE IF main.output THEN Exit(m, IF written THEN 0 ELSE 1)
                      ELSE [m EXCEPT !.pc = "tui"]
          IN  IF cached.err = NoErr /\ Len(cached.topics) > 0
              THEN /\ disk' = disk
                   /\ main' = Finish(cached.topics)
              ELSE \E ans \in TopicAnswers, cat \in CatChoices,
                      write \in WriteOutcomes :
                      LET network == LatestTopics(disk, ans, cat)
                          enriched == ApplyCategories(network, cat)
                      IN  IF network.err # NoErr
                          THEN /\ disk' = network.files
                               /\ main' = Exit(main, 1)
                          ELSE /\ disk' = [enriched.files EXCEPT ![LatestFile] =
                                              WriteCache(@, MarshalTopics(enriched),
                                                         write)]
                               /\ main' = Finish(enriched.topics)
    /\ UNCHANGED <<uiVars, tailCursor, call, jar, client>>

\* the files main finds: cookie files that are not there or cannot be read
InitMain ==
    /\ InitialModel
    /\ tailCursor = 0
    /\ call = NoCall
    /\ jar = {}
    /\ client = NewClient(PlaceholderURL, CookieFile).client
    /\ main = NoMain
    /\ disk \in {[f \in Files |-> IF f \in {CookieFile, CustomCookieFile}
                                  THEN file ELSE NoFile] :
                    file \in {NoFile, Unreadable}}

NextMain ==
    \/ MainLogout
    \/ MainStart
    \/ LoginEnter
    \/ LoginQuit
    \/ LoginRunError
    \/ MainAfterLogin
    \/ MainLoadCookies
    \/ MainFetch

SpecMain == InitMain /\ [][NextMain]_vars

----------------------------------------------------------------------------
(* The login program, key by key.  main holds the loginModel: the three      *)
(* inputs, focusIndex, err and done, with the key handled last, the number *)
(* of calls of Login, and what the saved instance file holds (<<>>: none). *)

MaxAttempts == 2     \* calls of Login in one run of the login program

LoginKeys == {"enter", "tab", "shift+tab", "esc", "char"}

\* InitialLoginModel, with the instance file an earlier run left
InitialLoginModel(saved) ==
    [pc |-> "login", focusIndex |-> 0, instanceURL |-> <<>>, username |-> "",
     password |-> "", err |-> "", done |-> FALSE, key |-> "", attempts |-> 0,
     saved |-> saved]

\* config.SaveInstance: os.WriteFile of the URL to the instance file
SaveInstance(saved, instanceURL, write) ==
    IF write = "ok" THEN instanceURL
    ELSE IF write = "none" THEN saved
    ELSE <<>>

\* loginModel.Update after Login that saves the instance and ends the
\* program whatever Login returned
LoginReturnedIgnoreError(m, err, write) ==
    [m EXCEPT !.saved = SaveInstance(@, m.instanceURL, write),
              !.done = TRUE, !.pc = "quit"]

\* loginModel.Update after Login returned err: the error is kept and the
\* program goes on, or the instance is saved, a failure of which is only
\* logged, and the program ends as done
LoginReturned(m, err, write) ==
    IF err # NoErr THEN [m EXCEPT !.err = "login failed"]
    ELSE [m EXCEPT !.saved = SaveInstance(@, m.instanceURL, write),
                   !.done = TRUE, !.pc = "quit"]

\* loginModel.Update, Enter: on the last field the checks of the inputs, the
\* new client and Login; on another field the focus moves on
LoginKeyEnter ==
    /\ main.pc = "login"
    /\ LET m == [main EXCEPT !.key = "enter"]
       IN  IF main.focusIndex # 2
           THEN /\ main' = [m EXCEPT !.focusIndex = @ + 1]
                /\ UNCHANGED <<call, client, jar, disk>>
           ELSE IF main.instanceURL = <<>>
           THEN /\ main' = [m EXCEPT !.err = "instance URL is required"]
                /\ UNCHANGED <<call, client, jar, disk>>
           ELSE IF main.username = ""
           THEN /\ main' = [m EXCEPT !.err = "username is required"]
                /\ UNCHANGED <<call, client, jar, disk>>
           ELSE IF main.password = ""
           THEN /\ main' = [m EXCEPT !.err = "password is required"]
                /\ UNCHANGED <<call, client, jar, disk>>
           ELSE IF NewClient(main.instanceURL, client.cookiesPath).err # NoErr
           THEN /\ main' = [m EXCEPT !.err = "failed to create client"]
                /\ UNCHANGED <<call, client, jar, disk>>
           ELSE /\ main.attempts < MaxAttempts
                /\ \E csrf \in CSRFOutcomes, csrfCookies \in ServerCookies,
                      post \in PostOutcomes, postCookies \in ServerCookies,
                      write \in FileWriteOutcomes, save \in FileWriteOutcomes :
                      LET logged == Login({}, disk[client.cookiesPath], csrf,
                                          csrfCookies, post, postCookies, FALSE,
                                          write)
                      IN  /\ client' = NewClient(main.instanceURL,
                                                 client.cookiesPath).client
                          /\ jar' = logged.jar
                          /\ disk' = [disk EXCEPT ![client.cookiesPath] = logged.file]
                          /\ call' = [op |-> "Login", err |-> logged.err]
                          /\ main' = LoginReturned([m EXCEPT !.attempts = @ + 1],
                                                   logged.err, save)
    /\ UNCHANGED <<uiVars, tailCursor>>

\* loginModel.Update, Tab and Shift+Tab
LoginKeyTab ==
    /\ main.pc = "login"
    /\ main' = [main EXCEPT !.key = "tab", !.focusIndex = (@ + 1) % 3]
    /\ UNCHANGED <<uiVars, tailCursor, clientVarsButMain>>

LoginKeyShiftTab ==
    /\ main.pc = "login"
    /\ main' = [main EXCEPT !.key = "shift+tab",
                            !.focusIndex = IF @ - 1 < 0 THEN 2 ELSE @ - 1]
    /\ UNCHANGED <<uiVars, tailCursor, clientVarsButMain>>

\* loginModel.Update, Ctrl+C or Esc
LoginKeyQuit ==
    /\ main.pc = "login"
    /\ main' = [main EXCEPT !.key = "esc", !.pc = "quit"]
    /\ UNCHANGED <<uiVars, tailCursor, clientVarsButMain>>

\* loginModel.Update, another key: the focused input takes it
LoginKeyChar ==
    /\ main.pc = "login"
    /\ \E instanceURL \in LoginURLs, name \in LoginNames :
          main' = [main EXCEPT
                      !.key = "char",
                      !.instanceURL = IF main.focusIndex = 0 THEN instanceURL ELSE @,
                      !.username = IF main.focusIndex = 1 THEN name ELSE @,
                      !.password = IF main.focusIndex = 2 THEN name ELSE @]
    /\ UNCHANGED <<uiVars, tailCursor, clientVarsButMain>>

\* the login program main starts when there is no cookie file
InitLogin ==
    /\ InitialModel
    /\ tailCursor = 0
    /\ call = NoCall
    /\ jar = {}
    /\ client = NewClient(PlaceholderURL, CookieFile).client
    /\ main \in {InitialLoginModel(saved) : saved \in {<<>>, <<"b">>}}
    /\ disk = [f \in Files |-> NoFile]

NextLogin ==
    \/ LoginKeyEnter
    \/ LoginKeyTab
    \/ LoginKeyShiftTab
    \/ LoginKeyQuit
    \/ LoginKeyChar

SpecLogin == InitLogin /\ [][NextLogin]_vars

\* the instance key of a URL: the URL without its scheme
InstanceKey(url) == TrimPrefix(TrimPrefix(url, Https), Http)

\* "placeholder", main's instanceName before an instance is known
PlaceholderName == <<"placeholder">>

\* filepath.Join(.., "instances", name, "latest.json"): the directory of the
\* file, the slashes at the end of the name cleaned away
RECURSIVE InstanceDir(_)
InstanceDir(name) ==
    IF HasSuffix(name, <<"/">>) THEN InstanceDir(TrimSuffix(name, <<"/">>))
    ELSE name

\* the directory of the cache file GetLatestTopics and RefreshTopics write
ClientCacheDir(c) == InstanceDir(InstanceKey(c.baseURL))

\* main up to the read of the cached topics: latestTopicsCachePath and the
\* client, for the -url flag, the saved instance, and the URL of the login
\* screen when there was no cookie file
MainCache(url, saved, absent, loginURL) ==
    LET instanceName == IF url # <<>> THEN InstanceKey(url) ELSE PlaceholderName
        made == IF url # <<>> THEN NewClient(url, CookieFile)
                ELSE IF saved # <<>> THEN NewClient(saved, CookieFile)
                ELSE NewClient(PlaceholderURL, CookieFile)
        remade == NewClient(loginURL, CookieFile)
    IN  IF ~absent
        THEN [err |-> made.err, read |-> InstanceDir(instanceName),
              client |-> made.client]
        ELSE [err |-> remade.err, read |-> InstanceDir(InstanceKey(loginURL)),
              client |-> remade.client]

\* instance URLs: with and without a scheme, a host or a host and a path,
\* with slashes at the end
InstanceURLs == {scheme \o host \o Slashes(n) :
                    scheme \in Schemes, host \in Hosts \ {<<>>},
                    n \in 0..MaxSlashes}

\* the first start of main up to the read of the cached topics
CallMainCache ==
    /\ call = NoCall
    /\ \E url \in InstanceURLs \cup {<<>>}, saved \in {<<>>, <<"a">>, Https \o <<"a">>},
          absent \in BOOLEAN, loginURL \in InstanceURLs \cup {<<>>} :
          /\ absent \/ loginURL = <<>>
          /\ call' = [op |-> "main", url |-> url, saved |-> saved,
                      absent |-> absent, loginURL |-> loginURL,
                      result |-> MainCache(url, saved, absent, loginURL)]
    /\ UNCHANGED <<uiVars, tailCursor, jar, disk, client, main>>

NextCache == CallMainCache

SpecCache == InitChain /\ [][NextCache]_vars

----------------------------------------------------------------------------
(* The output package: client is the package's client, NilClient before    *)
(* SetClient, and disk holds the files of the output paths.                 *)

Txt == <<".", "t", "x", "t">>
Json == <<".", "j", "s", "o", "n">>
Html == <<".", "h", "t", "m", "l">>

\* paths given with -output: the three formats and one that is none
OutputPaths == {<<"o">> \o ext : ext \in {Txt, Json, Html, <<".", "m", "d">>}}

\* the IDs of the topics of a Response, and the outcomes of the
\* GetTopicPosts calls for its first and second topic
TopicLists == {<<>>, <<1>>, <<2, 1>>}
PostOutcomeLists == {<<"ok", "ok">>, <<"err1", "ok">>, <<"ok", "err1">>,
                     <<"ok", "err2">>}

\* MkdirAll and os.WriteFile of the output file: "nodir" is a directory
\* that cannot be made
OutputWriteOutcomes == FileWriteOutcomes \cup {"nodir"}

\* getTopicPosts of the output package
getTopicPosts(c, topicID, outcome) ==
    IF c = NilClient THEN [err |-> "client not set", posts |-> <<>>]
    ELSE [err |-> GetTopicPosts(topicID, outcome).err,
          posts |-> GetTopicPosts(topicID, outcome).posts]

\* JSONFormatter.Format
FormatJSON(topics) == [err |-> NoErr, data |-> <<"json", topics>>]

\* TextFormatter.Format and HTMLFormatter.Format from topic i on: a section
\* for each topic with its posts; the first failing getTopicPosts ends it
RECURSIVE FormatPosts(_, _, _, _, _, _)
FormatPosts(format, topics, c, outcomes, i, content) ==
    IF i > Len(topics) THEN [err |-> NoErr, data |-> <<format>> \o content]
    ELSE LET posts == getTopicPosts(c, topics[i], outcomes[i])
         IN  IF posts.err # NoErr
             THEN [err |-> "failed to fetch posts for topic", data |-> <<>>]
             ELSE FormatPosts(format, topics, c, outcomes, i + 1,
                              Append(content, <<topics[i], posts.posts>>))

\* WriteToFile that creates the output file before it formats
WriteToFileCreateFirst(path, topics, c, outcomes, file, write) ==
    IF ~HasSuffix(path, Txt) /\ ~HasSuffix(path, Json) /\ ~HasSuffix(path, Html)
    THEN [err |-> "output file must end with .txt, .json, or .html", file |-> file]
    ELSE LET formatted == IF HasSuffix(path, Json) THEN FormatJSON(topics)
                          ELSE IF HasSuffix(path, Html)
                          THEN FormatPosts("html", topics, c, outcomes, 1, <<>>)
                          ELSE FormatPosts("text", topics, c, outcomes, 1, <<>>)
         IN  IF write = "nodir"
             THEN [err |-> "failed to create output directory", file |-> file]
             ELSE IF formatted.err # NoErr
             THEN [err |-> "failed to format output", file |-> TextFile(<<>>)]
             ELSE LET written == WriteFile(file, formatted.data, write)
                  IN  [err |-> IF written.err = NoErr THEN NoErr
                               ELSE "failed to write output file",
                       file |-> written.file]

\* WriteToFile: file is the output file before the call
WriteToFile(path, topics, c, outcomes, file, write) ==
    IF ~HasSuffix(path, Txt) /\ ~HasSuffix(path, Json) /\ ~HasSuffix(path, Html)
    THEN [err |-> "output file must end with .txt, .json, or .html", file |-> file]
    ELSE LET formatted == IF HasSuffix(path, Json) THEN FormatJSON(topics)
                          ELSE IF HasSuffix(path, Html)
                          THEN FormatPosts("html", topics, c, outcomes, 1, <<>>)
                          ELSE FormatPosts("text", topics, c, outcomes, 1, <<>>)
         IN  IF formatted.err # NoErr
             THEN [err |-> "failed to format output", file |-> file]
             ELSE IF write = "nodir"
             THEN [err |-> "failed to create output directory", file |-> file]
             ELSE LET written == WriteFile(file, formatted.data, write)
                  IN  [err |-> IF written.err = NoErr THEN NoErr
                               ELSE "failed to write output file",
                       file |-> written.file]

CallSetClient ==
    /\ client' = NewClient(PlaceholderURL, CookieFile).client
    /\ call' = [op |-> "SetClient"]
    /\ UNCHANGED <<uiVars, tailCursor, jar, disk, main>>

CallWriteToFile ==
    /\ \E path \in OutputPaths, topics \in TopicLists,
          outcomes \in PostOutcomeLists, write \in OutputWriteOutcomes :
          LET r == WriteToFile(path, topics, client, outcomes, disk[path], write)
          IN  /\ call' = [op |-> "WriteToFile", path |-> path, topics |-> topics,
                          outcomes |-> outcomes, err |-> r.err]
              /\ disk' = [disk EXCEPT ![path] = r.file]
    /\ UNCHANGED <<uiVars, tailCursor, jar, client, main>>

\* the package before SetClient, no output file written yet
InitOutput ==
    /\ InitialModel
    /\ tailCursor = 0
    /\ call = NoCall
    /\ jar = {}
    /\ client = NilClient
    /\ main = NoMain
    /\ disk = [p \in OutputPaths |-> NoFile]

NextOutput ==
    \/ CallSetClient
    \/ CallWriteToFile

SpecOutput == InitOutput /\ [][NextOutput]_vars

\* the paginated retrievals of a client whose cooldown main or a caller sets
NextCooldown ==
    \/ CallLoadAllTopics
    \/ CallGetTopicPosts
    \/ CallSetPageCooldown

SpecCooldown == InitFetch /\ [][NextCooldown]_vars

----------------------------------------------------------------------------
(* Properties *)

\* some message of one of the types is on its way
InFlightIn(bag, types) == \E m \in BagToSet(bag) : m.type \in types
InFlight(types) == InFlightIn(msgs, types)

\* the messages this step put on their way
NewMsgs == {m \in BagToSet(msgs') : CopiesIn(m, msgs') > CopiesIn(m, msgs)}

RefreshMsgTypes == {"topicsRefreshedMsg", "topicsRefreshErrorMsg"}
MoreMsgTypes == {"moreTopicsLoadedMsg", "moreTopicsLoadErrorMsg"}
LoadAllMsgTypes == {"loadAllTopicsMsg", "loadAllTopicsErrorMsg"}

NoDuplicates(seq) == \A i, j \in 1..Len(seq) : seq[i] = seq[j] => i = j

\* this step took m out of msgs, i.e. Update handled it
Handled(m) == CopiesIn(m, msgs') < CopiesIn(m, msgs)

\* this step dispatched no command and armed no timer
NothingDispatched == \A m \in BagToSet(msgs') : CopiesIn(m, msgs') <= CopiesIn(m, msgs)

PostMsgTypes == {"postsLoadedMsg", "postsLoadErrorMsg"}

Min2(a, b) == IF a <= b THEN a ELSE b

\* the i-th page a client that follows the cursors from /latest.json is sent
\* to; 0 when the cursor before it was empty
RECURSIVE NthPage(_, _)
NthPage(i, tail) ==
    IF i = 1 THEN 1
    ELSE LET prev == NthPage(i - 1, tail)
         IN  IF prev = 0 THEN 0 ELSE PageCursor(prev, tail)

\* topics of the first k pages on that way, in page order
RECURSIVE ConcatPages(_, _)
ConcatPages(k, tail) ==
    IF k = 0 THEN <<>> ELSE ConcatPages(k - 1, tail) \o PageTopics(NthPage(k, tail))

\* the i-th page is the last one to fetch: its cursor is empty, or it is a
\* continuation page without topics
LastPage(i, tail) ==
    /\ NthPage(i, tail) # 0
    /\ \/ PageCursor(NthPage(i, tail), tail) = 0
       \/ i > 1 /\ PageTopics(NthPage(i, tail)) = <<>>

\* number of pages up to the first last page, cap if there is none within cap
ServerPages(tail, cap) ==
    IF \E i \in 1..cap : LastPage(i, tail)
    THEN CHOOSE i \in 1..cap : LastPage(i, tail) /\ \A j \in 1..(i - 1) : ~LastPage(j, tail)
    ELSE cap

\* maxPages as LoadAllTopics uses it
EffectiveMaxPages(maxPages) == IF maxPages <= 0 THEN DefaultMaxPages ELSE maxPages

\* the errors of Login the cookie file must survive: CSRF fetch, transport,
\* status, no cookies
LoginFailures ==
    {"failed to get CSRF token", "failed to login", "login failed",
     "failed to save cookies after login: no cookies to save"}

\* the name=value pairs of a jar and of a cookie list
Pairs(j) == {<<c.name, c.value>> : c \in j}
ListPairs(cookies) == {<<cookies[i].name, cookies[i].value>> : i \in 1..Len(cookies)}

\* a cookie as a server can set it: a name without "=", both parts without
\* white space
ValidCookie(c) ==
    /\ c.name # <<>>
    /\ \A i \in 1..Len(c.name) : ~IsSpace(c.name[i]) /\ c.name[i] # "="
    /\ \A i \in 1..Len(c.value) : ~IsSpace(c.value[i])

\* the lists Jar.Cookies returns for the non-empty jars of valid cookies with
\* one value per name
ValidCookieLists ==
    {Cookies(j, rev) : j \in {v \in Jars : /\ v # {}
                                           /\ \A c \in v : ValidCookie(c)
                                           /\ \A c, d \in v : c.name = d.name => c = d},
                       rev \in BOOLEAN}

\* C1: in the topic-list state a refresh request (tick or R), a load-more
\* request (m) or a load-all request (M) made while the flag of its own kind
\* is set dispatches nothing and leaves topics, cursor, all four flags, the
\* viewport and the form unchanged.
C1_SameKindNoOp ==
    [][(/\ State = "stateTopicList"
        /\ \/ last' \in {"refreshMsg", "R"} /\ isRefreshingTopics
           \/ last' = "m" /\ isLoadingMore
           \/ last' = "M" /\ isLoadingAll)
       => /\ NothingDispatched
          /\ UNCHANGED <<State, Topics, MoreTopicsURL, flagVars, Viewport, formVars>>]_vars

\* C1 witness: m was pressed with a load-more in flight, while a refresh and a
\* load-all were in flight too
C1_Witness ==
    /\ State = "stateTopicList"
    /\ last = "m"
    /\ MoreTopicsURL # 0
    /\ StatusMessage = ""
    /\ isLoadingMore /\ isRefreshingTopics /\ isLoadingAll
    /\ InFlight(MoreMsgTypes)
    /\ InFlight(RefreshMsgTypes)
    /\ InFlight(LoadAllMsgTypes)

\* C2: Enter on a topic while a post fetch of an earlier open is still on its
\* way (first page or full) dispatches nothing.
C2_NoOpenWhileFetching ==
    [][(State = "stateTopicList" /\ last' = "enter" /\ InFlight(PostMsgTypes))
       => NothingDispatched]_vars

\* C3: with the forum's pages disjoint and chained, the loaded topic list
\* never holds a topic ID twice.
C3_NoDuplicateTopics == tailCursor = 0 => NoDuplicates(Topics)

\* C4: whatever the UI state, a result message clears the flag of its kind, a
\* success replaces or extends the topic list and an error sets a status.
C4_ResultsHandled ==
    [][\A m \in BagToSet(msgs) : Handled(m) =>
          /\ m.type \in RefreshMsgTypes => ~isRefreshingTopics'
          /\ m.type \in MoreMsgTypes => ~isLoadingMore'
          /\ m.type \in LoadAllMsgTypes => ~isLoadingAll'
          /\ m.type \in PostMsgTypes => ~isLoadingPosts'
          /\ m.type = "topicsRefreshedMsg"
                => Topics' = RefreshTopics(TRUE, tailCursor).topics
          /\ m.type = "moreTopicsLoadedMsg"
                => Topics' = Topics \o GetMoreTopics(m.a, TRUE, tailCursor).topics
          /\ m.type = "loadAllTopicsMsg"
                => Topics' = LoadAllTopics(UIMaxPages, m.a, tailCursor).topics
          /\ m.type \in {"topicsRefreshErrorMsg", "moreTopicsLoadErrorMsg",
                         "loadAllTopicsErrorMsg"}
                => StatusMessage' # ""]_vars

\* C5: after every timer tick the next tick is armed, or a refresh is in
\* flight whose completion arms it.
C5_TickRearmed ==
    [][Handled(TickMsg) =>
          \/ CopiesIn(TickMsg, msgs') >= 1
          \/ isRefreshingTopics' /\ InFlightIn(msgs', RefreshMsgTypes)]_vars

\* C6: a load-more is dispatched only with a non-empty cursor and no
\* load-more in flight, for the page the cursor names; when it completes
\* successfully the list becomes the list before followed by that page, and
\* the cursor becomes that page's cursor.
C6_LoadMoreAppends ==
    [][/\ \A m \in NewMsgs : m.type \in MoreMsgTypes =>
             /\ MoreTopicsURL # 0 /\ m.a = MoreTopicsURL
             /\ ~isLoadingMore /\ ~InFlight(MoreMsgTypes)
       /\ \A m \in BagToSet(msgs) : (Handled(m) /\ m.type = "moreTopicsLoadedMsg") =>
             /\ Topics' = Topics \o PageTopics(m.a)
             /\ MoreTopicsURL' = PageCursor(m.a, tailCursor)]_vars

\* C7: a failed load-more leaves topics and cursor as they were, clears
\* isLoadingMore and sets the error status.
C7_LoadMoreFailure ==
    [][\A m \in BagToSet(msgs) : (Handled(m) /\ m.type = "moreTopicsLoadErrorMsg") =>
          /\ UNCHANGED <<Topics, MoreTopicsURL>>
          /\ ~isLoadingMore'
          /\ StatusMessage' = "Error loading more topics"]_vars

\* C8: a successful load-all makes topics and cursor those of its result, and
\* the result was obtained with at most UIMaxPages page requests.
C8_LoadAllReplaces ==
    [][\A m \in BagToSet(msgs) : (Handled(m) /\ m.type = "loadAllTopicsMsg") =>
          LET response == LoadAllTopics(UIMaxPages, m.a, tailCursor)
          IN  /\ Topics' = response.topics
              /\ MoreTopicsURL' = response.cursor
              /\ response.fetched <= UIMaxPages]_vars

\* C9: Enter with no post fetch in flight dispatches exactly a first-page
\* fetch and a full fetch of one loaded topic, and every post result, success
\* or error, becomes the viewport content when it arrives.
C9_TwoFetchesLastWins ==
    [][/\ (State = "stateTopicList" /\ last' = "enter" /\ ~InFlight(PostMsgTypes)) =>
             /\ BagCardinality(msgs') = BagCardinality(msgs) + 2
             /\ \E p, f \in NewMsgs :
                   /\ NewMsgs = {p, f}
                   /\ p.type \in PostMsgTypes /\ f.type \in PostMsgTypes
                   /\ p.a = f.a /\ p.a \in {Topics[i] : i \in 1..Len(Topics)}
                   /\ p.b = "page1" /\ f.b \in {"full", "err1", "err2"}
       /\ \A m \in BagToSet(msgs) : Handled(m) =>
             /\ m.type = "postsLoadedMsg" => Viewport' = PostsContent(m)
             /\ m.type = "postsLoadErrorMsg" => Viewport' = ErrorContent(m)]_vars

\* C10: when a topicCreatedMsg arrives the UI is in the topic list afterwards
\* and a refreshMsg has been sent, also after the user left the form with Esc.
C10_CreatedRefreshes ==
    [][\A m \in BagToSet(msgs) : (Handled(m) /\ m.type = "topicCreatedMsg") =>
          /\ State' = "stateTopicList"
          /\ CopiesIn(RefreshNowMsg, msgs') = CopiesIn(RefreshNowMsg, msgs) + 1]_vars

\* C11: while the open form is submitting, a key other than Esc changes no
\* field and dispatches nothing; and when a topicCreateErrorMsg is handled the
\* form is enabled again (submitting false) with its error set and its title,
\* content and category as they were.
C11_FormDisabledUntilFailure ==
    [][/\ (State = "stateNewTopic" /\ submitting
             /\ last' \in {"ctrl+s", "tab", "shift+tab", "char"}) =>
             /\ NothingDispatched
             /\ UNCHANGED <<titleInput, contentInput, categoryInput, focusIndex,
                            submitting>>
       /\ \A m \in BagToSet(msgs) : (Handled(m) /\ m.type = "topicCreateErrorMsg") =>
             /\ submitting' = FALSE
             /\ formErr' # ""
             /\ UNCHANGED <<titleInput, contentInput, categoryInput>>]_vars

\* C12: when the initial page was fetched and a later page request of
\* LoadAllTopics fails, the call succeeds and returns exactly the topics of
\* the pages fetched before, in page order, which are not empty.
C12_PartialOnFailure ==
    (call.op = "LoadAllTopics" /\ call.okPages >= 1
        /\ call.result.fetched = call.okPages + 1)
    => /\ call.result.err = NoErr
       /\ call.result.topics = ConcatPages(call.okPages, tailCursor)
       /\ Len(call.result.topics) > 0

\* C12 witness: the fourth request failed on a forum whose cursors cycle, and
\* the three pages before it were returned
C12_Witness ==
    /\ call.op = "LoadAllTopics"
    /\ tailCursor = 2
    /\ call.okPages = 3
    /\ call.maxPages = 0
    /\ call.result.fetched = 4
    /\ call.result.err = NoErr
    /\ call.result.topics = <<1, 2, 3, 4>>

\* C13: LoadAllTopics issues at most maxPages requests (DefaultMaxPages when
\* maxPages <= 0), the initial one included, and exactly as many as it takes
\* to reach the first failing request, the first empty cursor or the first
\* continuation page without topics, whichever comes first.
C13_LoadAllBounded ==
    call.op = "LoadAllTopics"
    => LET maxPages == EffectiveMaxPages(call.maxPages)
       IN  /\ call.result.fetched <= maxPages
           /\ call.result.fetched =
                 Min2(call.okPages + 1, ServerPages(tailCursor, maxPages))

\* C13 witness: cursors that cycle, no request fails, maxPages <= 0: the call
\* ended after DefaultMaxPages requests
C13_Witness ==
    /\ call.op = "LoadAllTopics"
    /\ tailCursor \in 1..NumPages
    /\ call.maxPages <= 0
    /\ call.okPages > DefaultMaxPages
    /\ call.result.fetched = DefaultMaxPages

\* C14: a successful LoadAllTopics returns the topics of the pages it
\* fetched, in page order, with the cursor of the last of them, and no topic
\* ID twice.
C14_LoadAllResult ==
    (call.op = "LoadAllTopics" /\ call.result.err = NoErr)
    => LET pages == Min2(call.okPages, call.result.fetched)
       IN  /\ call.result.topics = ConcatPages(pages, tailCursor)
           /\ call.result.cursor = PageCursor(NthPage(pages, tailCursor), tailCursor)
           /\ NoDuplicates(call.result.topics)

C20_CacheAuthoritative ==
    [][/\ (disk[CatFile] # NoFile /\ call'.op # "reset-cache")
             => disk'[CatFile] = disk[CatFile]
       /\ call'.op = "GetCategories" =>
             IF disk[CatFile] # NoFile
             THEN /\ call'.result.err = NoErr
                  /\ call'.result.requests = <<>>
                  /\ call'.result.categories = ParseCategories(disk[CatFile])
             ELSE /\ call'.result.requests = <<CategoriesRequest>>
                  /\ disk'[CatFile] # NoFile =>
                        /\ call'.outcome = "ok"
                        /\ call'.result.err = NoErr
                        /\ disk'[CatFile] \in {call'.body, TruncatedDoc}]_vars

\* C20 witness: GetCategories answered from a cached document while the forum
\* would have answered with another one
C20_Witness ==
    /\ call.op = "GetCategories"
    /\ call.cache = [kind |-> "json", category_list |-> <<7>>]
    /\ call.outcome = "ok"
    /\ call.body = [kind |-> "json", category_list |-> <<7, 8>>]
    /\ call.result.requests = <<>>
    /\ call.result.categories = <<7>>
    /\ disk[CatFile] = call.cache

\* C16: Login changes the cookie file only when the CSRF fetch succeeded and
\* the POST was answered with 200, after both requests; and when it returns
\* an error of the CSRF fetch, of the transport, of the status or for an empty
\* jar, the cookie file is as it was before the call.
C16_LoginPersistsLast ==
    call.op = "Login"
    => /\ disk[CookieFile] # call.before =>
             /\ call.csrf = "ok" /\ call.post = "200"
             /\ call.requests = <<CSRFRequest, LoginRequest>>
       /\ call.err \in LoginFailures => disk[CookieFile] = call.before

\* C16 witness: a POST answered with another status than 200 after the
\* responses had set a cookie; the file of an earlier run is untouched
C16_Witness ==
    /\ call.op = "Login"
    /\ call.csrf = "ok" /\ call.post = "403"
    /\ call.err = "login failed"
    /\ jar # {}
    /\ call.before = OldCookieFile
    /\ disk[CookieFile] = OldCookieFile

C18_SaveLoadRoundTrip ==
    [][/\ (call'.op = "LoadCookies" /\ call'.fresh) =>
             \A cookies \in ValidCookieLists :
                disk[CookieFile] = TextFile(CookieText(cookies)) =>
                   /\ call'.err = NoErr
                   /\ Pairs(jar') = ListPairs(cookies)
       /\ (call.op = "EncryptData" /\ call'.op = "DecryptData"
             /\ call'.password = call.password) =>
             /\ call'.err = NoErr
             /\ disk'[CookieFile] = TextFile(call.data)]_vars

\* C18 witness: two cookies, one with a "=" in its value, one of them a
\* domain cookie, were saved in reverse order and loaded by a new client
C18_Witness ==
    /\ call.op = "LoadCookies" /\ call.fresh
    /\ disk[CookieFile] =
          TextFile(CookieText(Cookies({CookieUniverse[2], CookieUniverse[5]}, TRUE)))
    /\ jar = {CookieUniverse[3], CookieUniverse[5]}

\* C19: DecryptData of an undamaged output of EncryptData with another
\* password fails, leaves no plaintext, and its error is none of the errors
\* of a missing file or of a damaged blob under the right password.
C19_WrongPasswordDistinct ==
    (/\ call.op = "DecryptData"
     /\ call.encrypted.kind = "blob"
     /\ call.encrypted.size = "full" /\ call.encrypted.sealed.intact
     /\ call.encrypted.salt \in Salts
     /\ call.password # call.encrypted.sealed.key[1])
    => /\ call.err # NoErr
       /\ disk[CookieFile] = call.encrypted
       /\ call.err # LoadCookies({}, NoFile).err
       /\ \A damage \in Damages :
             call.err # DecryptData(Damaged(call.encrypted, damage),
                                    call.encrypted.sealed.key[1]).err

\* C24: NewClient fails on the empty base URL; on any other it succeeds and
\* the stored base URL starts with http:// or https://, with https:// when
\* the input had neither (a becomes https://a), and does not end with a slash.
C24_BaseURLNormalised ==
    call.op = "NewClient"
    => IF call.baseURL = <<>> THEN call.err # NoErr
       ELSE /\ call.err = NoErr
            /\ HasPrefix(client.baseURL, Http) \/ HasPrefix(client.baseURL, Https)
            /\ (~HasPrefix(call.baseURL, Http) /\ ~HasPrefix(call.baseURL, Https))
                  => HasPrefix(client.baseURL, Https)
            /\ call.baseURL = <<"a">> => client.baseURL = Https \o <<"a">>
            /\ client.baseURL[Len(client.baseURL)] # "/"

\* C25: Login, CreateTopic and PerformPostAction first request a CSRF token;
\* when that request fails, is answered with another status than 200 or with
\* an empty token, they return an error and send no POST; otherwise the one
\* POST they send follows the token request and carries the token received.
C25_TokenBeforePost ==
    call.op \in {"Login", "CreateTopic", "PerformPostAction"}
    => /\ call.requests[1] = CSRFRequest
       /\ call.csrf # "ok" =>
             /\ call.err # NoErr
             /\ call.requests = <<CSRFRequest>>
             /\ call.posted = <<>>
       /\ call.csrf = "ok" =>
             /\ Len(call.requests) = 2 /\ Len(call.posted) = 1
             /\ call.posted[1].url = call.requests[2].url
             /\ call.posted[1].X_CSRF_Token = "csrf-token"
             /\ call.op = "Login" => call.posted[1].authenticity_token = "csrf-token"

\* C25 witness: the token request of a CreateTopic was answered with 200 and
\* an empty token; CreateTopic failed and sent no POST
C25_Witness ==
    /\ call.op = "CreateTopic" /\ call.csrf = "empty"
    /\ call.err = "failed to get CSRF token for creating topic"
    /\ call.requests = <<CSRFRequest>>
    /\ call.posted = <<>>

\* C26: CreateTopic succeeds exactly when the POST was answered with 200 or
\* 201 and a body that decodes to a post with a non-zero ID, and then returns
\* that post; another status is an API error, and a decoded post ID of 0
\* under 200 or 201 is the error of the invalid ID.
C26_CreatedOnlyWithID ==
    (call.op = "CreateTopic" /\ call.csrf = "ok")
    => LET success == call.post \in {"200", "201"}
           hasID == call.body.kind = "json" /\ "id" \in DOMAIN call.body
                    /\ call.body.id # 0
       IN  /\ call.err = NoErr <=> (success /\ hasID)
           /\ call.err = NoErr => call.created = [ID |-> call.body.id]
           /\ call.err # NoErr => call.created = NilPost
           /\ call.post \in {"204", "403"} => call.err = "create topic API error"
           /\ (success /\ call.body.kind = "json" /\ ~hasID)
                 => call.err = "created post has ID 0, which is invalid"

\* C26 witness: a 201 whose body has the post ID 0, refused
C26_Witness ==
    /\ call.op = "CreateTopic" /\ call.csrf = "ok"
    /\ call.post = "201"
    /\ call.body = [kind |-> "json", id |-> 0]
    /\ call.err = "created post has ID 0, which is invalid"
    /\ call.created = NilPost

\* the categories an operation got: from the cache file it found, else from
\* the answer to its request; none if that request failed
GotCategories ==
    IF call.catCache # NoFile THEN ParseCategories(call.catCache)
    ELSE IF call.cat.net = "ok" THEN ParseCategories(call.cat.body)
    ELSE <<>>

\* the topics of the body an operation was answered with
BodyTopics ==
    IF "topic_list" \in DOMAIN call.ans.body THEN call.ans.body.topic_list.topics
    ELSE <<>>

EnrichingOps == {"GetLatestTopics", "GetMoreTopics", "refresh command", "load-more command"}

\* C21: an enriching operation that succeeds returns the topics of the body,
\* as many and in that order, with ID and category ID unchanged; a topic
\* whose category ID is among the categories got has that category's name
\* and color, every other topic has both derived fields empty.
C21_EnrichmentIsJoin ==
    (call.op \in EnrichingOps /\ call.result.err = NoErr)
    => LET out == call.result.topics
       IN  /\ Len(out) = Len(BodyTopics)
           /\ \A i \in 1..Len(out) :
                 /\ out[i].ID = BodyTopics[i].id
                 /\ out[i].CategoryID = BodyTopics[i].category_id
                 /\ IF \E k \in 1..Len(GotCategories) :
                          GotCategories[k] = out[i].CategoryID
                    THEN /\ out[i].CategoryName = CategoryName(out[i].CategoryID)
                         /\ out[i].CategoryColor = CategoryColor(out[i].CategoryID)
                    ELSE /\ out[i].CategoryName = ""
                         /\ out[i].CategoryColor = ""

\* C21 witness: three topics, the first in a category that was got, the
\* second in a category that was not
C21_Witness ==
    /\ call.op = "GetLatestTopics" /\ call.result.err = NoErr
    /\ GotCategories = <<7>>
    /\ Len(call.result.topics) = 3
    /\ call.result.topics[1].CategoryName = "general"
    /\ call.result.topics[2] = Topic(2, 9)
    /\ call.result.topics[3] = Topic(3, 8)

\* C22: when the topic request succeeded and the categories could not be
\* got (no cache file, the request failing), the operation succeeds, the
\* command returns the success message, and the topics of the body are
\* returned with empty derived fields.
C22_CategoryFailureNotFatal ==
    (/\ call.op \in EnrichingOps
     /\ call.ans.net = "ok" /\ (call.op = "GetMoreTopics" => call.moreURL # 0)
     /\ call.catCache = NoFile /\ call.cat.net # "ok")
    => /\ call.result.err = NoErr
       /\ call.type \in {"", "topicsRefreshedMsg", "moreTopicsLoadedMsg"}
       /\ Len(call.result.topics) = Len(BodyTopics)
       /\ \A i \in 1..Len(BodyTopics) :
             call.result.topics[i] =
                Topic(BodyTopics[i].id, BodyTopics[i].category_id)

\* C22 witness: the load-more command delivering three topics although the
\* categories request was answered with an error status
C22_Witness ==
    /\ call.op = "load-more command"
    /\ call.catCache = NoFile /\ call.cat.net = "status"
    /\ call.type = "moreTopicsLoadedMsg"
    /\ Len(call.result.topics) = 3
    /\ disk[CatFile] = NoFile

\* C23: GetLatestTopics, GetMoreTopics and RefreshTopics, answered with 200,
\* succeed whatever becomes of the cache write, and have tried to write the
\* body to the instance's cache; when the write succeeded the body is there.
C23_BodyPersisted ==
    (/\ call.op \in {"GetLatestTopics", "GetMoreTopics", "RefreshTopics"}
     /\ call.ans.net = "ok" /\ (call.op = "GetMoreTopics" => call.moreURL # 0))
    => /\ call.result.err = NoErr
       /\ call.result.persisted # <<>>
       /\ call.ans.write = "ok" =>
             \E i \in 1..Len(call.result.persisted) :
                disk[call.result.persisted[i]] = call.ans.body

\* C27: a 200 whose body is no JSON or has no topic_list makes the topic-list
\* operations return an error, and the refresh command the error message.
C27_DecodeErrorReturned ==
    (/\ call.op \in {"GetLatestTopics", "GetMoreTopics", "RefreshTopics",
                      "refresh command"}
     /\ call.ans.net = "ok" /\ (call.op = "GetMoreTopics" => call.moreURL # 0)
     /\ "topic_list" \notin DOMAIN call.ans.body)
    => /\ call.result.err # NoErr
       /\ call.op = "refresh command" => call.type = "topicsRefreshErrorMsg"

\* what of a trace of waits and requests are the requests
Requests(events) == SelectSeq(events, LAMBDA e : e # Sleep)

\* every request but the first comes right after a wait
Throttled(events) ==
    \A i \in 2..Len(events) : events[i] # Sleep => events[i - 1] = Sleep

C28_LoginBeforeTopics ==
    [][/\ (Ended(main) /\ ~main'.logout /\ disk[main'.path] = NoFile) =>
              main'.pc = "login"
       /\ main'.pc = "login" =>
              (main.pc = "login" \/ (Ended(main) /\ disk[main'.path] = NoFile))
       /\ (main.pc = "quit" /\ disk[main.path] = NoFile) =>
              (main'.pc = "exit" /\ main'.code = 1)
       /\ (main.pc = "load" /\ LoadCookies(jar, disk[main.path]).err # NoErr) =>
              (main'.pc = "exit" /\ main'.code = 1)
       /\ (main'.pc = "load" /\ main'.absent) =>
              (main.pc = "quit" /\ disk[main.path] # NoFile)
       /\ main'.pc = "fetch" =>
              /\ main.pc = "load"
              /\ disk[main.path] # NoFile
              /\ LoadCookies(jar, disk[main.path]).err = NoErr
       /\ (main'.pc = "tui" \/ main'.topics > 0) =>
              (main.pc = "fetch" \/ main' = main)]_vars

\* a run that found no cookies file is in the main program after a login
C28_Witness ==
    /\ main.pc = "tui"
    /\ main.absent
    /\ main.login
    /\ disk[main.path] # NoFile
    /\ jar # {}

\* C29: after a run with -logout that exited with 0 the cookies file that a
\* run with the same flags loads, the -cookies path when given, is not there
C29_LogoutRemovesLoadedFile ==
    (main.pc = "exit" /\ main.logout /\ main.code = 0) =>
        disk[DefaultCookiesPath(main.cookies)] = NoFile

\* C31: GetTopicPostsPage for page 1 issues the request for the topic
\* document and no other and returns the posts of that document, or its
\* error and no posts; for any other page its requests, posts and error are
\* those of GetTopicPosts answered the same way
C31_PageOneIsPrimaryDocument ==
    call.op = "GetTopicPostsPage" =>
        IF call.page = 1
        THEN /\ call.result.requests = <<TopicRequest(call.topicID)>>
             /\ call.result.events = <<TopicRequest(call.topicID)>>
             /\ call.result.posts =
                   IF call.outcome = "ok" THEN PostStreamPosts(call.topicID) ELSE <<>>
             /\ call.result.err = NoErr <=> call.outcome = "ok"
        ELSE call.result = GetTopicPosts(call.topicID, call.outcome)

\* page 1 of a topic whose full fetch takes a second request and brings
\* other posts
C31_Witness ==
    /\ call.op = "GetTopicPostsPage"
    /\ call.page = 1
    /\ call.result.err = NoErr
    /\ Len(GetTopicPosts(call.topicID, "ok").requests) = 2
    /\ call.result.posts # GetTopicPosts(call.topicID, "ok").posts

\* name and value of a line that has a "="
LineName(line) == TrimSpace(SubSeq(line, 1, Index(line, "=") - 1))
LineValue(line) == TrimSpace(SubSeq(line, Index(line, "=") + 1, Len(line)))

\* the cookies of the lines that have a "=", the last line of a name counting
LineCookies(lines) ==
    LET WellFormed == {i \in 1..Len(lines) : Index(lines[i], "=") # 0}
    IN  {Cookie(LineName(lines[i]), LineValue(lines[i]), "host") :
            i \in {k \in WellFormed :
                     \A l \in WellFormed :
                        l > k => LineName(lines[l]) # LineName(lines[k])}}

\* C32: LoadCookies of a file that can be read returns no error, whatever
\* blank lines and lines without "=" the file has, and leaves in the jar what
\* was there under other names and one cookie for each name of a name=value
\* line, with the value of the last such line
C32_MalformedLinesSkipped ==
    [][(call'.op = "LoadCookies" /\ disk[CookieFile] \notin {NoFile, Unreadable}) =>
          LET cookies == LineCookies(Split(FileBytes(disk[CookieFile]), "\n"))
              before == IF call'.fresh THEN {} ELSE jar
          IN  /\ call'.err = NoErr
              /\ jar' = {e \in before : \A c \in cookies : ~SameKey(e, c)}
                           \cup cookies]_vars

\* the file with a blank and a malformed line was loaded into an empty jar
C32_Witness ==
    /\ call.op = "LoadCookies"
    /\ call.fresh
    /\ call.err = NoErr
    /\ disk[CookieFile] = OldCookieFile
    /\ jar = {Cookie(<<"b">>, <<"1">>, "host")}

\* the viewport holds posts of topic t, or the error of a fetch of topic t
ShowsTopic(t) ==
    \/ /\ Viewport.kind = "posts"
       /\ Viewport.posts \in {GetTopicPostsPage(t, 1, "ok").posts,
                              GetTopicPosts(t, "ok").posts}
    \/ /\ Viewport.kind = "error"
       /\ Viewport.err.topic = t

\* C33: when a topic has been opened and no post fetch is on its way any
\* more, the viewport holds the posts, or the fetch error, of the topic that
\* was opened last
C33_LatestOpenWins ==
    (opened # 0 /\ ~InFlight(PostMsgTypes)) => ShowsTopic(opened)

\* C34: never is more than one timer tick (the refreshMsg of tea.Tick) armed
C34_OneTickArmed == CopiesIn(TickMsg, msgs) <= 1

\* C35: a failed refresh and a failed load-all leave topics, cursor, UI state,
\* viewport, form and the flags of the other kinds as they were, clear the
\* flag of their kind and set an error status; a successful refresh makes the
\* first page and its cursor the topic list and the cursor
C35_FailureKeepsTopics ==
    [][\A m \in BagToSet(msgs) : Handled(m) =>
          /\ m.type = "topicsRefreshErrorMsg" =>
                /\ UNCHANGED <<Topics, MoreTopicsURL, State, Viewport, formVars,
                               isLoadingPosts, isLoadingMore, isLoadingAll>>
                /\ ~isRefreshingTopics'
                /\ StatusMessage' = "Error refreshing topics"
          /\ m.type = "loadAllTopicsErrorMsg" =>
                /\ UNCHANGED <<Topics, MoreTopicsURL, State, Viewport, formVars,
                               isLoadingPosts, isLoadingMore, isRefreshingTopics>>
                /\ ~isLoadingAll'
                /\ StatusMessage' = "Error loading all topics"
          /\ m.type = "topicsRefreshedMsg" =>
                /\ Topics' = PageTopics(1)
                /\ MoreTopicsURL' = PageCursor(1, tailCursor)
                /\ ~isRefreshingTopics']_vars

\* the page requests among the requests of a call
PageRequests(requests) ==
    SelectSeq(requests, LAMBDA r : r.url \in {"/latest.json", "more_topics_url"})

\* C36: the cursor LoadAllTopics returns is that of the last page it
\* received, also when the request after it failed or the page limit was
\* hit, and it is empty only when that page is the last page of the list,
\* a topic list whose more_topics_url is empty
C36_CursorNamesNextPage ==
    (call.op = "LoadAllTopics" /\ call.result.err = NoErr) =>
        LET fetched == Len(PageRequests(call.result.requests))
            received == IF call.ans[fetched].net = "ok" THEN fetched ELSE fetched - 1
            body == call.ans[received].body
        IN  /\ received >= 1
            /\ call.result.cursor = ParseTopics(body).cursor
            /\ call.result.cursor = 0 =>
                  /\ "topic_list" \in DOMAIN body
                  /\ body.topic_list.more_topics_url = 0

\* C37: the latest-topics cache file main reads at startup is in the
\* directory the client writes its latest.json to, whether the instance
\* comes from -url, from the saved instance or from the login screen
C37_MainReadsClientCache ==
    (/\ call.op = "main"
     /\ call.result.err = NoErr
     /\ call.url # <<>> \/ call.saved # <<>> \/ call.absent) =>
        call.result.read = ClientCacheDir(call.result.client)

\* the title, content and category of the form pass the checks of Ctrl+S
FormValid ==
    /\ titleInput # "" /\ contentInput # "" /\ categoryInput # ""
    /\ IsInt(categoryInput)

\* this step dispatched a create request
CreateDispatched ==
    \E ok \in BOOLEAN : CopiesIn(CreateCmd(ok), msgs') > CopiesIn(CreateCmd(ok), msgs)

\* C38: Ctrl+S on the new-topic form with an empty title, content or
\* category, or with a category that is no integer, dispatches nothing, sets
\* the form's error and leaves submitting false and the fields as they
\* were; a create request is dispatched only from a form that passes.
C38_InvalidFormNotSubmitted ==
    [][(State = "stateNewTopic" /\ last' = "ctrl+s") =>
          /\ ~FormValid =>
                /\ NothingDispatched
                /\ formErr' # ""
                /\ submitting' = FALSE
                /\ UNCHANGED <<titleInput, contentInput, categoryInput>>
          /\ CreateDispatched => FormValid]_vars

\* C38 witness: Ctrl+S left a form with title and content whose category is
\* no integer with the error of the conversion, not submitting
C38_Witness ==
    /\ State = "stateNewTopic" /\ last = "ctrl+s"
    /\ titleInput # "" /\ contentInput # "" /\ categoryInput = "x"
    /\ formErr = "invalid category ID"
    /\ ~submitting

\* this step called Login
LoginAttempted == main'.attempts = main.attempts + 1

\* C39: in the login program Login is called only by Enter on the last
\* field with instance URL, username and password not empty; the instance
\* file changes and the program ends as done only in a step whose Login
\* succeeded, with the cookie file written; a failed Login sets the error,
\* leaves the instance file alone and the program running, not done, with
\* the focus and the inputs as they were, so that Enter tries again.
C39_LoginAttempts ==
    [][/\ LoginAttempted =>
             /\ main'.key = "enter"
             /\ main.focusIndex = 2
             /\ main.instanceURL # <<>> /\ main.username # "" /\ main.password # ""
       /\ (main'.saved # main.saved \/ main'.done # main.done) =>
             /\ LoginAttempted
             /\ call'.err = NoErr
             /\ Len(Cookies(jar', FALSE)) > 0
             /\ disk'[client'.cookiesPath] = TextFile(CookieText(Cookies(jar', FALSE)))
       /\ (LoginAttempted /\ call'.err # NoErr) =>
             /\ main'.err # ""
             /\ main'.saved = main.saved
             /\ ~main'.done
             /\ main'.pc = "login"
             /\ main'.focusIndex = 2
             /\ main'.instanceURL = main.instanceURL
             /\ main'.username = main.username
             /\ main'.password = main.password]_vars

\* C39 witness: the program ended as done with the instance saved by the
\* second Login, after a first one that failed
C39_Witness ==
    /\ main.pc = "quit" /\ main.done
    /\ main.attempts = 2
    /\ main.err = "login failed"
    /\ main.saved = main.instanceURL
    /\ disk[client.cookiesPath].kind = "text"

\* the path has none of the three extensions
BadExtension(path) ==
    ~HasSuffix(path, Txt) /\ ~HasSuffix(path, Json) /\ ~HasSuffix(path, Html)

\* GetTopicPosts fails for a topic of the list
PostsFail(topics, outcomes) ==
    \E i \in 1..Len(topics) : GetTopicPosts(topics[i], outcomes[i]).err # NoErr

\* C40 as stated: a call of WriteToFile with a path of no known extension,
\* with no client set, or with a GetTopicPosts that fails for a topic of a
\* text or HTML export returns an error and leaves the output file alone.
C40_NoClientAlwaysFails ==
    [][(call'.op = "WriteToFile"
          /\ \/ BadExtension(call'.path)
             \/ client = NilClient
             \/ /\ ~HasSuffix(call'.path, Json)
                /\ PostsFail(call'.topics, call'.outcomes)) =>
          /\ call'.err # NoErr
          /\ disk' = disk]_vars

\* C40: a call of WriteToFile with a path of no known extension, or a text
\* or HTML export of at least one topic with no client set or with a
\* GetTopicPosts that fails for one of the topics, returns an error and
\* leaves the output file alone; and the output file changes only in a call
\* whose formatting succeeded: a JSON export, or a text or HTML export with
\* the client set and the posts of every topic fetched.
C40_WriteAfterFormat ==
    [][call'.op = "WriteToFile" =>
          LET needsPosts == ~HasSuffix(call'.path, Json) /\ call'.topics # <<>>
              fails == \/ BadExtension(call'.path)
                       \/ /\ needsPosts
                          /\ \/ client = NilClient
                             \/ PostsFail(call'.topics, call'.outcomes)
          IN  /\ fails => (call'.err # NoErr /\ disk' = disk)
              /\ disk' # disk => ~fails]_vars

\* C40 witness: a text export whose second topic's posts could not be
\* fetched failed and left the file of an earlier export as it was
C40_Witness ==
    /\ call.op = "WriteToFile" /\ call.path = <<"o">> \o Txt
    /\ Len(call.topics) = 2
    /\ client # NilClient
    /\ GetTopicPosts(call.topics[1], call.outcomes[1]).err = NoErr
    /\ GetTopicPosts(call.topics[2], call.outcomes[2]).err # NoErr
    /\ call.err = "failed to format output"
    /\ disk[call.path] = TextFile(<<"text", <<1, GetTopicPosts(1, "ok").posts>>>>)

====
